---- MODULE Spec2Model ----
(***************************************************************************)
(* Model of the raster reinsertion engine of llm-art-localization          *)
(* (src/pipeline/reinsert.py): the non-translatable classifier, the text   *)
(* fitter, the background estimator and the per-region loop of             *)
(* reinsert_raster and the file system it reads and writes.                *)
(*                                                                         *)
(* A text is a sequence of one-character strings.  A pixel is a tuple      *)
(* <<r, g, b, a>>.  Polygon coordinates are integers (pixel units); the    *)
(* direct calls of _sample_background take float rectangles, given in      *)
(* halves of a pixel.                                                      *)
(***************************************************************************)
EXTENDS Integers, Sequences, FiniteSets, TLC

(***************************************************************************)
(* Bounds of the model.                                                    *)
(***************************************************************************)
MaxClassifyLen == 5
MaxFitLen == 5
MaxRectW == 16
MaxRegions == 2
MaxLines == 3
CanvasW == 12
CanvasH == 10

(***************************************************************************)
(* Program constants.                                                      *)
(***************************************************************************)
default_size == 13
min_size == 7
SampleMax == 4

Max(a, b) == IF a >= b THEN a ELSE b
Min(a, b) == IF a <= b THEN a ELSE b

(***************************************************************************)
(* Character classes of Python's re: \d, \s, \w (ASCII part).              *)
(***************************************************************************)
Digit == {"0", "1", "2", "3", "4", "5", "6", "7", "8", "9"}
HexLetter == {"a", "b", "c", "d", "e", "f", "A", "B", "C", "D", "E", "F"}
Whitespace == {" ", "\t", "\n"}
Letter ==
    {"a", "b", "c", "d", "e", "f", "g", "h", "i", "j", "k", "l", "m", "n", "o",
     "p", "q", "r", "s", "t", "u", "v", "w", "x", "y", "z",
     "A", "B", "C", "D", "E", "F", "G", "H", "I", "J", "K", "L", "M", "N", "O",
     "P", "Q", "R", "S", "T", "U", "V", "W", "X", "Y", "Z"}
WordChar == Letter \cup Digit \cup {"_"}

AllIn(s, cls) == \A k \in 1..Len(s) : s[k] \in cls

(* str.strip(): drop leading and trailing whitespace. *)
strip(s) ==
    LET keep == {k \in 1..Len(s) : s[k] \notin Whitespace}
    IN  IF keep = {} THEN <<>>
        ELSE LET lo == CHOOSE k \in keep : \A j \in keep : k <= j
                 hi == CHOOSE k \in keep : \A j \in keep : k >= j
             IN  SubSeq(s, lo, hi)

(* str.split(): the maximal runs of non-whitespace characters, in order. *)
RECURSIVE split(_)
split(s) ==
    IF Len(s) = 0 THEN <<>>
    ELSE IF s[1] \in Whitespace THEN split(Tail(s))
    ELSE LET stops == {k \in 1..Len(s) : s[k] \in Whitespace}
             n == IF stops = {} THEN Len(s)
                  ELSE (CHOOSE k \in stops : \A j \in stops : k <= j) - 1
         IN  <<SubSeq(s, 1, n)>> \o split(SubSeq(s, n + 1, Len(s)))

(***************************************************************************)
(* _NON_TRANSLATABLE: the four alternatives of the pattern, each as a      *)
(* predicate on the candidate the group has to consume.                    *)
(***************************************************************************)
MatchGuid(s) ==
    /\ Len(s) = 36
    /\ \A k \in 1..36 :
          IF k \in {9, 14, 19, 24} THEN s[k] = "-"
          ELSE s[k] \in Digit \cup HexLetter

MatchEmail(s) ==
    \E at \in 2..Len(s) : \E dot \in (at + 2)..(Len(s) - 1) :
        /\ s[at] = "@"
        /\ s[dot] = "."
        /\ AllIn(SubSeq(s, 1, at - 1), WordChar \cup {".", "+", "-"})
        /\ AllIn(SubSeq(s, at + 1, dot - 1), WordChar \cup {".", "-"})
        /\ AllIn(SubSeq(s, dot + 1, Len(s)), WordChar)

DotQuad(s) ==
    \E a \in 2..Len(s) : \E b \in (a + 2)..Len(s) : \E c \in (b + 2)..(Len(s) - 1) :
        /\ s[a] = "." /\ s[b] = "." /\ s[c] = "."
        /\ a - 1 <= 3 /\ b - a - 1 <= 3 /\ c - b - 1 <= 3 /\ Len(s) - c <= 3
        /\ AllIn(SubSeq(s, 1, a - 1), Digit)
        /\ AllIn(SubSeq(s, a + 1, b - 1), Digit)
        /\ AllIn(SubSeq(s, b + 1, c - 1), Digit)
        /\ AllIn(SubSeq(s, c + 1, Len(s)), Digit)

(* '?d{1,3}.d{1,3}.d{1,3}.d{1,3}"?  -- an optional leading apostrophe and  *)
(* an optional trailing double quote around the dotted quad.               *)
MatchIP(s) ==
    \E lead \in {0, 1} : \E trail \in {0, 1} :
        /\ Len(s) >= lead + trail
        /\ lead = 1 => s[1] = "'"
        /\ trail = 1 => s[Len(s)] = "\""
        /\ DotQuad(SubSeq(s, 1 + lead, Len(s) - trail))

MatchNumeric(s) ==
    /\ Len(s) >= 1
    /\ AllIn(s, Digit \cup Whitespace \cup {".", ",", "-", "+", "%", ":"})

MatchGroup(s) == MatchGuid(s) \/ MatchEmail(s) \/ MatchIP(s) \/ MatchNumeric(s)

(* The `$` of the pattern: the end of the string, or just before a newline *)
(* that ends the string.  DollarNoAnchor is the pattern without its `$`.   *)
DollarNoAnchor(s, k) == TRUE
Dollar(s, k) ==
    \/ k = Len(s)
    \/ k = Len(s) - 1 /\ s[Len(s)] = "\n"

(* re.match of ^( ... )$ : the group consumes a prefix, then `$` holds. *)
NON_TRANSLATABLE_match(s) ==
    \E k \in 0..Len(s) : MatchGroup(SubSeq(s, 1, k)) /\ Dollar(s, k)

_is_non_translatable(text) == NON_TRANSLATABLE_match(strip(text))

(***************************************************************************)
(* Fonts.  _load_font(size) gives Arial at `size` when the font file can   *)
(* be opened and ImageFont.load_default() otherwise; the default font      *)
(* ignores the requested size (its metrics are the same for every size).   *)
(* `fontAvailable` is the environment's answer, fixed for a run.           *)
(***************************************************************************)
VARIABLES
    fontAvailable,      \* whether ImageFont.truetype finds arial.ttf
    original,           \* the content of the source image file
    img,                \* the canvas of the running call
    source_blocks,      \* the detector's regions: [text, bounding_box]
    translated_blocks,  \* the translator's regions: [text, bounding_box]
    idx,                \* position of the zip iteration (1-based)
    pc,                 \* control point of the running call
    output,             \* the image saved at output_path, or NoImage
    writes,             \* history: what each region step painted
    input,              \* argument of a direct call of a helper
    calls,              \* history: results of the direct calls of helpers
    original_path,      \* argument: where the source image is read
    output_path,        \* argument: where the result is saved
    files,              \* the file system: what each path holds
    dirs,               \* the file system: the directories that exist
    before,             \* history: files and dirs when the call started
    returned,           \* the value the call returned, or NoPath
    running,            \* the local state of each of several running calls
    metrics             \* the records appended to METRICS_FILE

vars ==
    <<fontAvailable, original, img, source_blocks, translated_blocks, idx, pc,
      output, writes, input, calls,
      original_path, output_path, files, dirs, before, returned, running,
      metrics>>

(* What reinsert_raster never assigns, and what only its last lines touch. *)
args == <<original_path, output_path, before, running>>
world == <<files, dirs, returned, metrics>>

_load_font(size) ==
    [kind |-> IF fontAvailable THEN "truetype" ELSE "default", size |-> size]

(* Advance of one glyph in pixels: em-relative for the TrueType font       *)
(* (narrow, regular and wide glyphs), a fixed cell for the default font.   *)
Advance(c, font) ==
    IF font.kind = "default" THEN 6
    ELSE LET units == CASE c \in {" ", "\t", "\n", "i", "l", ".", ",", ":", "'", "-"} -> 2
                        [] c \in {"W", "M", "@", "%"} -> 7
                        [] OTHER -> 4
         IN  (units * font.size + 4) \div 8

(* draw.textbbox((0, 0), text, font=font)[2]: the right edge of the text,  *)
(* the pen position after its last glyph.                                  *)
RECURSIVE textwidth(_, _)
textwidth(text, font) ==
    IF Len(text) = 0 THEN 0
    ELSE textwidth(SubSeq(text, 1, Len(text) - 1), font) + Advance(text[Len(text)], font)

(* draw.textbbox((0, 0), "Ag", font=font)[3]: the bottom edge of the probe. *)
textheight(font) == IF font.kind = "default" THEN 11 ELSE font.size

(***************************************************************************)
(* _wrap_text: greedy word wrap.                                           *)
(***************************************************************************)
RECURSIVE WrapLoop(_, _, _, _, _)
WrapLoop(words, current, lines, font, max_width) ==
    IF Len(words) = 0
    THEN IF Len(current) > 0 THEN Append(lines, current) ELSE lines
    ELSE LET word == Head(words)
             candidate == strip(current \o <<" ">> \o word)
             w == textwidth(candidate, font)
         IN  IF w <= max_width
             THEN WrapLoop(Tail(words), candidate, lines, font, max_width)
             ELSE WrapLoop(Tail(words), word,
                           IF Len(current) > 0 THEN Append(lines, current) ELSE lines,
                           font, max_width)

RECURSIVE WrapLoopDropLast(_, _, _, _, _)
WrapLoopDropLast(words, current, lines, font, max_width) ==
    IF Len(words) = 0
    THEN lines
    ELSE LET word == Head(words)
             candidate == strip(current \o <<" ">> \o word)
             w == textwidth(candidate, font)
         IN  IF w <= max_width
             THEN WrapLoopDropLast(Tail(words), candidate, lines, font, max_width)
             ELSE WrapLoopDropLast(Tail(words), word,
                           IF Len(current) > 0 THEN Append(lines, current) ELSE lines,
                           font, max_width)

RECURSIVE WrapLoopStrict(_, _, _, _, _)
WrapLoopStrict(words, current, lines, font, max_width) ==
    IF Len(words) = 0
    THEN IF Len(current) > 0 THEN Append(lines, current) ELSE lines
    ELSE LET word == Head(words)
             candidate == strip(current \o <<" ">> \o word)
             w == textwidth(candidate, font)
         IN  IF w < max_width
             THEN WrapLoopStrict(Tail(words), candidate, lines, font, max_width)
             ELSE WrapLoopStrict(Tail(words), word,
                                 IF Len(current) > 0 THEN Append(lines, current) ELSE lines,
                                 font, max_width)

(* Faulty variants of _wrap_text: no [text] fallback; the last line lost;  *)
(* lines never broken; a word appended only below max_width.               *)
wrap_text_strict(text, font, max_width) ==
    LET words == split(text)
    IN  IF Len(words) = 0 THEN <<text>>
        ELSE LET lines == WrapLoopStrict(words, <<>>, <<>>, font, max_width)
             IN  IF Len(lines) > 0 THEN lines ELSE <<text>>

wrap_text_no_fallback(text, font, max_width) ==
    WrapLoop(split(text), <<>>, <<>>, font, max_width)

wrap_text_drop_last(text, font, max_width) ==
    LET words == split(text)
    IN  IF Len(words) = 0 THEN <<text>>
        ELSE LET lines == WrapLoopDropLast(words, <<>>, <<>>, font, max_width)
             IN  IF Len(lines) > 0 THEN lines ELSE <<text>>

wrap_text_never_breaks(text, font, max_width) ==
    LET words == split(text)
    IN  IF Len(words) = 0 THEN <<text>>
        ELSE WrapLoop(words, <<>>, <<>>, font, textwidth(text, font))

_wrap_text(text, font, max_width) ==
    LET words == split(text)
    IN  IF Len(words) = 0 THEN <<text>>
        ELSE LET lines == WrapLoop(words, <<>>, <<>>, font, max_width)
             IN  IF Len(lines) > 0 THEN lines ELSE <<text>>

(***************************************************************************)
(* _fit_text: the largest size from default_size down to min_size at which *)
(* the whole text fits on one line, else the wrap at min_size.             *)
(***************************************************************************)
RECURSIVE FitLoop(_, _, _)
FitLoop(text, max_w, size) ==
    IF size < min_size
    THEN [font |-> _load_font(min_size),
          lines |-> _wrap_text(text, _load_font(min_size), max_w)]
    ELSE IF textwidth(text, _load_font(size)) <= max_w
         THEN [font |-> _load_font(size), lines |-> <<text>>]
         ELSE FitLoop(text, max_w, size - 1)

RECURSIVE FitLoopUp(_, _, _)
FitLoopUp(text, max_w, size) ==
    IF size > default_size
    THEN [font |-> _load_font(min_size),
          lines |-> _wrap_text(text, _load_font(min_size), max_w)]
    ELSE IF textwidth(text, _load_font(size)) <= max_w
         THEN [font |-> _load_font(size), lines |-> <<text>>]
         ELSE FitLoopUp(text, max_w, size + 1)

(* Faulty variants of _fit_text: the smallest fitting size; the wrap       *)
(* fallback at default_size.                                               *)
fit_text_smallest(text, rect) ==
    FitLoopUp(text, Max(1, rect[3] - rect[1]), min_size)

fit_text_wrap_at_default(text, rect) ==
    LET max_w == Max(1, rect[3] - rect[1])
        fit == FitLoop(text, max_w, default_size)
    IN  IF Len(fit.lines) = 1 /\ fit.lines[1] = text
           /\ textwidth(text, fit.font) <= max_w
        THEN fit
        ELSE [font |-> _load_font(default_size), lines |-> fit.lines]

(* Faulty variant of _fit_text: the first size tried is capped by the      *)
(* rectangle's height.                                                     *)
fit_text_by_height(text, rect) ==
    LET max_w == Max(1, rect[3] - rect[1])
        max_h == Max(1, rect[4] - rect[2])
    IN  FitLoop(text, max_w, Min(default_size, Max(min_size, max_h)))

_fit_text(text, rect) ==
    LET max_w == Max(1, rect[3] - rect[1])
        max_h == Max(1, rect[4] - rect[2])
    IN  FitLoop(text, max_w, default_size)

(***************************************************************************)
(* Geometry and canvas.  An image is [width, height, mode, data] with      *)
(* data a function from <<x, y>> to the pixel there.                       *)
(***************************************************************************)
White == <<255, 255, 255, 255>>
Black == <<0, 0, 0, 255>>
Grey == <<128, 128, 128, 255>>
Glass == <<0, 0, 255, 128>>

PixelsOf(w, h) == (0..(w - 1)) \X (0..(h - 1))

NoImage == [width |-> 0, height |-> 0, mode |-> "none", data |-> [p \in {} |-> White]]

SeqMin(s) == CHOOSE v \in {s[k] : k \in 1..Len(s)} : \A k \in 1..Len(s) : v <= s[k]
SeqMax(s) == CHOOSE v \in {s[k] : k \in 1..Len(s)} : \A k \in 1..Len(s) : v >= s[k]

(* polygon[0::2] and polygon[1::2] (0-based): the x and the y coordinates. *)
EvenSlice(polygon) == [k \in 1..((Len(polygon) + 1) \div 2) |-> polygon[2 * k - 1]]
OddSlice(polygon) == [k \in 1..(Len(polygon) \div 2) |-> polygon[2 * k]]

_polygon_to_rect(polygon) ==
    LET xs == EvenSlice(polygon)
        ys == OddSlice(polygon)
    IN  <<SeqMin(xs), SeqMin(ys), SeqMax(xs), SeqMax(ys)>>

(* sorted(values)[k] with k 0-based, for a channel of a list of pixels. *)
SortedAt(pixels, ch, k) ==
    CHOOSE v \in {pixels[j][ch] : j \in 1..Len(pixels)} :
        /\ Cardinality({j \in 1..Len(pixels) : pixels[j][ch] < v}) <= k
        /\ Cardinality({j \in 1..Len(pixels) : pixels[j][ch] <= v}) > k

(* int(v) of line 177 for a coordinate given in halves of a pixel (a float *)
(* with one binary digit): truncation toward zero.  float(n) is the pixel  *)
(* count n as such a coordinate.                                           *)
int(v) == IF v >= 0 THEN v \div 2 ELSE -((-v) \div 2)
float(n) == 2 * n

(* Faulty variant of the clamp: the far corner made inclusive each time. *)
ClipRectInclusive(image, rect) ==
    <<Max(0, rect[1]), Max(0, rect[2]),
      Min(image.width, rect[3] - 1), Min(image.height, rect[4] - 1)>>

(* The clamp of _sample_background (lines 178-179), on whole pixels. *)
ClipRect(image, rect) ==
    <<Max(0, rect[1]), Max(0, rect[2]),
      Min(image.width, rect[3]), Min(image.height, rect[4])>>

(* The sample window: range(sample_w) x range(sample_h) of the crop. *)
SampleWindow(image, rect) ==
    LET c == ClipRect(image, rect)
        sample_w == Min(c[3] - c[1], SampleMax)
        sample_h == Min(c[4] - c[2], SampleMax)
    IN  IF c[3] <= c[1] \/ c[4] <= c[2] THEN {}
        ELSE {<<c[1] + px, c[2] + py>> : px \in 0..(sample_w - 1), py \in 0..(sample_h - 1)}

(* Faulty variants of _sample_background: the median of the whole crop;    *)
(* a pixel of the canvas read when the crop is empty.                      *)
sample_background_whole_region(image, rect) ==
    LET c == ClipRect(image, rect)
    IN  IF c[3] <= c[1] \/ c[4] <= c[2] THEN White
        ELSE LET w == c[3] - c[1]
                 h == c[4] - c[2]
                 pixels == [n \in 1..(w * h) |->
                               image.data[<<c[1] + ((n - 1) \div h),
                                            c[2] + ((n - 1) % h)>>]]
                 mid == Len(pixels) \div 2
             IN  <<SortedAt(pixels, 1, mid), SortedAt(pixels, 2, mid),
                   SortedAt(pixels, 3, mid), SortedAt(pixels, 4, mid)>>

sample_background_reads_origin(image, rect) ==
    LET c == ClipRect(image, rect)
    IN  IF c[3] <= c[1] \/ c[4] <= c[2] THEN image.data[<<0, 0>>]
        ELSE LET sample_w == Min(c[3] - c[1], SampleMax)
                 sample_h == Min(c[4] - c[2], SampleMax)
                 pixels == [n \in 1..(sample_w * sample_h) |->
                               image.data[<<c[1] + ((n - 1) \div sample_h),
                                            c[2] + ((n - 1) % sample_h)>>]]
                 mid == Len(pixels) \div 2
             IN  <<SortedAt(pixels, 1, mid), SortedAt(pixels, 2, mid),
                   SortedAt(pixels, 3, mid), SortedAt(pixels, 4, mid)>>

_sample_background(image, rect) ==
    LET c == ClipRect(image, rect)
    IN  IF c[3] <= c[1] \/ c[4] <= c[2] THEN White
        ELSE LET sample_w == Min(c[3] - c[1], SampleMax)
                 sample_h == Min(c[4] - c[2], SampleMax)
                 pixels == [n \in 1..(sample_w * sample_h) |->
                               image.data[<<c[1] + ((n - 1) \div sample_h),
                                            c[2] + ((n - 1) % sample_h)>>]]
                 mid == Len(pixels) \div 2
             IN  <<SortedAt(pixels, 1, mid), SortedAt(pixels, 2, mid),
                   SortedAt(pixels, 3, mid), SortedAt(pixels, 4, mid)>>

(* draw.rectangle(rect, fill=...): both corners are inside the painted     *)
(* area; what falls outside the image is dropped.                          *)
RectPixels(image, rect) ==
    (Max(0, rect[1])..Min(image.width - 1, rect[3]))
        \X (Max(0, rect[2])..Min(image.height - 1, rect[4]))

Paint(image, pixels, colour) ==
    [image EXCEPT !.data = [p \in DOMAIN image.data |->
                               IF p \in pixels THEN colour ELSE image.data[p]]]

(* draw.text((x, y), line, ...): the pixels a line inks.  Each glyph that  *)
(* is not whitespace inks its cell (advance x probe height) at the pen.    *)
InkPixels(image, x, y, line, font) ==
    UNION {(Max(0, x + textwidth(SubSeq(line, 1, k - 1), font))
              ..Min(image.width - 1, x + textwidth(SubSeq(line, 1, k), font) - 1))
           \X (Max(0, y)..Min(image.height - 1, y + textheight(font) - 1)) :
           k \in {j \in 1..Len(line) : line[j] \notin Whitespace}}

(* Faulty variant of the loop below: what falls below the rectangle's      *)
(* bottom edge is not drawn.                                               *)
LinesInkClipped(image, rect, fit) ==
    LET line_height == textheight(fit.font) + 1
    IN  {p \in UNION {InkPixels(image, rect[1], rect[2] + (k - 1) * line_height,
                                fit.lines[k], fit.font) : k \in 1..Len(fit.lines)} :
            p[2] <= rect[4]}

(* The for-loop over lines (lines 81-85): line k is drawn at               *)
(* (x, y + (k-1) * line_height).                                           *)
LinesInk(image, rect, fit) ==
    LET line_height == textheight(fit.font) + 1
    IN  UNION {InkPixels(image, rect[1], rect[2] + (k - 1) * line_height,
                         fit.lines[k], fit.font) : k \in 1..Len(fit.lines)}

(***************************************************************************)
(* Inputs of the runs: texts, polygons, images.                            *)
(***************************************************************************)
TxtOk == <<"O", "k">>
TxtSiOk == <<"S", "i", " ", "o", "k">>
TxtPort == <<"P", "o", "r", "t", " ", "8", "0">>
TxtSave == <<"S", "a", "v", "e">>
TxtPercent == <<"1", "2", ".", "5", "%">>
TxtEmail == <<"a", "@", "b", ".", "c", "o", "m">>
TxtPhone == <<"1", "2", "3", "-", "4", "5", "6", "-", "7", "8", "9", "0">>
TxtIP == <<"1", "9", "2", ".", "1", "6", "8", ".", "1", ".", "1">>
TxtGuid ==
    <<"5", "5", "0", "e", "8", "4", "0", "0", "-", "e", "2", "9", "b", "-", "4", "1", "d", "4", "-", "a", "7", "1", "6", "-", "4", "4", "6", "6", "5", "5", "4", "4", "0", "0", "0", "0">>

BoxA == <<1, 1, 9, 1, 9, 4, 1, 4>>
BoxB == <<4, 2, 11, 2, 11, 8, 4, 8>>
BoxC == <<3, 3, 8, 3, 8, 6, 3, 6>>
BoxOnePoint == <<3, 3>>
BoxLine == <<5, 2, 5, 6>>
BoxOutside == <<CanvasW + 2, CanvasH + 2, CanvasW + 8, CanvasH + 2,
                CanvasW + 8, CanvasH + 5, CanvasW + 2, CanvasH + 5>>

TextBlock(t, b) == [text |-> t, bounding_box |-> b]

SrcPool ==
    {TextBlock(TxtOk, BoxA), TextBlock(TxtPort, BoxC), TextBlock(TxtOk, BoxOnePoint),
     TextBlock(TxtSave, BoxOutside), TextBlock(TxtOk, BoxLine),
     TextBlock(TxtPercent, BoxB), TextBlock(TxtEmail, BoxA), TextBlock(TxtIP, BoxC)}

TgtTexts == {TxtOk, TxtSiOk}

SeqsUpTo(S, n) == UNION {[1..k -> S] : k \in 0..n}

Images ==
    <<[width |-> CanvasW, height |-> CanvasH, mode |-> "RGBA",
      data |-> [p \in PixelsOf(CanvasW, CanvasH) |->
                   IF (p[1] + 2 * p[2]) % 5 = 0 THEN Black ELSE Grey]],
     [width |-> CanvasW, height |-> CanvasH, mode |-> "RGBA",
      data |-> [p \in PixelsOf(CanvasW, CanvasH) |->
                   IF p[1] % 3 = 1 /\ p[2] % 2 = 0 THEN Grey ELSE Glass]]>>

(***************************************************************************)
(* The file system.  A path is the sequence of its components.  A path     *)
(* holds NoFile, an encoded image of Images, bytes that are no image       *)
(* (Corrupt), or an RGB image that a call saved there.                     *)
(***************************************************************************)
NoFile == [kind |-> "none", id |-> 0, image |-> NoImage]
Corrupt == [kind |-> "corrupt", id |-> 0, image |-> NoImage]
Encoded(i) == [kind |-> "encoded", id |-> i, image |-> NoImage]
Saved(image) == [kind |-> "saved", id |-> 0, image |-> image]
NoPath == <<>>

(* Image.open(file).convert("RGBA"): the decoded content of a file; a      *)
(* saved RGB image gets the opaque alpha 255.                              *)
Decoded(file) ==
    IF file.kind = "encoded" THEN Images[file.id]
    ELSE [file.image EXCEPT
            !.mode = "RGBA",
            !.data = [p \in DOMAIN file.image.data |->
                         Append(file.image.data[p], 255)]]

PathIn == <<"in", "a.png">>
PathOut == <<"out", "a.png">>
PathDeep == <<"out", "it", "a.png">>
PathOther == <<"in", "b.png">>
Paths == {PathIn, PathOut, PathDeep, PathOther}

(* Image.open(path).convert("RGBA") succeeds on such a content. *)
Decodable(content) == content.kind \in {"encoded", "saved"}

(* out.parent, and what out.parent.mkdir(parents=True, exist_ok=True)      *)
(* leaves in place: the parent and every directory above it.               *)
Parent(path) == SubSeq(path, 1, Len(path) - 1)
Ancestors(path) == {SubSeq(path, 1, k) : k \in 1..(Len(path) - 1)}

(* A file system holding `content` at `path`, nothing else. *)
OneFile(path, content) == [p \in Paths |-> IF p = path THEN content ELSE NoFile]

(***************************************************************************)
(* reinsert_raster and the file system it reads and writes.                *)
(***************************************************************************)
Init ==
    /\ fontAvailable \in BOOLEAN
    /\ original \in {Encoded(i) : i \in 1..Len(Images)}
    /\ img = NoImage
    /\ source_blocks \in SeqsUpTo(SrcPool, MaxRegions)
    /\ \E texts \in SeqsUpTo(TgtTexts, MaxRegions) :
          /\ Len(texts) - Len(source_blocks) \in {-1, 0, 1}
          /\ translated_blocks =
                [k \in 1..Len(texts) |->
                    TextBlock(texts[k],
                              IF k <= Len(source_blocks)
                              THEN source_blocks[k].bounding_box ELSE BoxA)]
    /\ idx = 1
    /\ pc = "open"
    /\ output = NoImage
    /\ writes = <<>>
    /\ input = <<>>
    /\ calls = <<>>
    /\ original_path = PathIn
    /\ output_path = PathOut
    /\ files = OneFile(original_path, original)
    /\ dirs = {Parent(original_path)}
    /\ before = [files |-> files, dirs |-> dirs]
    /\ returned = NoPath
    /\ running = <<>>
    /\ metrics = <<>>

(* Faulty variant: lists of different lengths are not paired at all. *)
ZipLenStrict ==
    IF Len(source_blocks) = Len(translated_blocks) THEN Len(source_blocks) ELSE 0

(* zip(source_blocks, translated_blocks) stops with the shorter list. *)
ZipLen == Min(Len(source_blocks), Len(translated_blocks))

(* Image.open(original_path).convert("RGBA") (lines 57-58). *)
Open ==
    /\ pc = "open"
    /\ Decodable(files[original_path])
    /\ img' = Decoded(files[original_path])
    /\ pc' = "loop"
    /\ UNCHANGED <<fontAvailable, original, source_blocks, translated_blocks, idx,
                   output, writes, input, calls>>
    /\ UNCHANGED <<args, world>>

(* Faulty variant of the skip below: the malformed region ends the loop. *)
SkipMalformedBreaks ==
    /\ pc = "loop"
    /\ idx <= ZipLen
    /\ Len(source_blocks[idx].bounding_box) < 4
    /\ idx' = ZipLen + 1
    /\ UNCHANGED <<fontAvailable, original, img, source_blocks, translated_blocks, pc,
                   output, writes, input, calls>>
    /\ UNCHANGED <<args, world>>

(* if len(bbox) < 4: continue (lines 61-63). *)
SkipMalformed ==
    /\ pc = "loop"
    /\ idx <= ZipLen
    /\ Len(source_blocks[idx].bounding_box) < 4
    /\ idx' = idx + 1
    /\ UNCHANGED <<fontAvailable, original, img, source_blocks, translated_blocks, pc,
                   output, writes, input, calls>>
    /\ UNCHANGED <<args, world>>

(* The skip decision of line 69, after two faulty variants of it: decided  *)
(* on the translated text; also taken when the translation echoes the      *)
(* source.                                                                 *)
SkipOnTarget(src_block, tgt_block) == _is_non_translatable(tgt_block.text)
SkipOnEcho(src_block, tgt_block) ==
    _is_non_translatable(src_block.text) \/ src_block.text = tgt_block.text
SkipDecision(src_block, tgt_block) == _is_non_translatable(src_block.text)

(* if _is_non_translatable(src_block.text): continue (lines 65-70). *)
SkipNonTranslatable ==
    /\ pc = "loop"
    /\ idx <= ZipLen
    /\ Len(source_blocks[idx].bounding_box) >= 4
    /\ SkipDecision(source_blocks[idx], translated_blocks[idx])
    /\ idx' = idx + 1
    /\ UNCHANGED <<fontAvailable, original, img, source_blocks, translated_blocks, pc,
                   output, writes, input, calls>>
    /\ UNCHANGED <<args, world>>

(* Lines 72-85 on a canvas: sample, fill, fit, draw.  The result carries   *)
(* the canvas and what was painted.  PaintOnOriginal is the faulty variant *)
(* that paints on the pristine image instead of the running canvas.        *)
PaintOnOriginal(canvas, src_block, tgt_block) ==
    LET rect == _polygon_to_rect(src_block.bounding_box)
        base == Decoded(original)
        bg_color == _sample_background(base, rect)
        filled == RectPixels(base, rect)
        fit == _fit_text(tgt_block.text, rect)
        ink == LinesInk(base, rect, fit)
    IN  [canvas |-> Paint(Paint(base, filled, bg_color), ink, Black),
         rect |-> rect, bg_color |-> bg_color, fit |-> fit]

(* Faulty variant: the background is sampled from the pristine image. *)
PaintSampleOriginal(canvas, src_block, tgt_block) ==
    LET rect == _polygon_to_rect(src_block.bounding_box)
        bg_color == _sample_background(Decoded(original), rect)
        filled == RectPixels(canvas, rect)
        afterFill == Paint(canvas, filled, bg_color)
        fit == _fit_text(tgt_block.text, rect)
        ink == LinesInk(afterFill, rect, fit)
    IN  [canvas |-> Paint(afterFill, ink, Black),
         rect |-> rect, bg_color |-> bg_color, fit |-> fit]

PaintRegion(canvas, src_block, tgt_block) ==
    LET rect == _polygon_to_rect(src_block.bounding_box)
        bg_color == _sample_background(canvas, rect)
        filled == RectPixels(canvas, rect)
        afterFill == Paint(canvas, filled, bg_color)
        fit == _fit_text(tgt_block.text, rect)
        ink == LinesInk(afterFill, rect, fit)
    IN  [canvas |-> Paint(afterFill, ink, Black),
         rect |-> rect, bg_color |-> bg_color, fit |-> fit]

(* The loop of lines 60-85 as a function of the canvas and the zipped      *)
(* pairs <<src_block, tgt_block>>.                                         *)
RECURSIVE RunRegions(_, _)
RunRegions(canvas, pairs) ==
    IF Len(pairs) = 0 THEN canvas
    ELSE LET src_block == Head(pairs)[1]
             tgt_block == Head(pairs)[2]
         IN  IF Len(src_block.bounding_box) < 4
             THEN RunRegions(canvas, Tail(pairs))
             ELSE IF SkipDecision(src_block, tgt_block)
             THEN RunRegions(canvas, Tail(pairs))
             ELSE RunRegions(PaintRegion(canvas, src_block, tgt_block).canvas,
                             Tail(pairs))

Reinsert ==
    /\ pc = "loop"
    /\ idx <= ZipLen
    /\ Len(source_blocks[idx].bounding_box) >= 4
    /\ ~SkipDecision(source_blocks[idx], translated_blocks[idx])
    /\ LET step == PaintRegion(img, source_blocks[idx], translated_blocks[idx])
       IN  /\ img' = step.canvas
           /\ writes' = Append(writes, [index |-> idx, rect |-> step.rect,
                                        bg_color |-> step.bg_color,
                                        fit |-> step.fit])
    /\ idx' = idx + 1
    /\ UNCHANGED <<fontAvailable, original, source_blocks, translated_blocks, pc,
                   output, input, calls>>
    /\ UNCHANGED <<args, world>>

(* Faulty variant of the conversion: the canvas is saved as it is. *)
ConvertKeepsAlpha(image) == image

(* img.convert("RGB"): the alpha channel is dropped. *)
ConvertRGB(image) ==
    [image EXCEPT !.mode = "RGB",
                  !.data = [p \in DOMAIN image.data |->
                               <<image.data[p][1], image.data[p][2], image.data[p][3]>>]]

(* Lines 87-90: the loop is over, the flattened canvas is saved. *)
Save ==
    /\ pc = "loop"
    /\ idx > ZipLen
    /\ output' = ConvertRGB(img)
    /\ dirs' = dirs \cup Ancestors(output_path)
    /\ files' = [files EXCEPT ![output_path] = Saved(ConvertRGB(img))]
    /\ returned' = output_path
    /\ pc' = "done"
    /\ UNCHANGED <<fontAvailable, original, img, source_blocks, translated_blocks, idx,
                   writes, input, calls>>
    /\ UNCHANGED <<args, metrics>>

Next == Open \/ SkipMalformed \/ SkipNonTranslatable \/ Reinsert \/ Save

Spec == Init /\ [][Next]_vars

(***************************************************************************)
(* reinsert_raster and the file system: the source file may be missing or  *)
(* no image, output_path may be any path (the source's own included), its  *)
(* directory may exist or not, and another file may lie next to the source.*)
(***************************************************************************)
FilesPool ==
    {TextBlock(TxtOk, BoxA), TextBlock(TxtOk, BoxOnePoint), TextBlock(TxtPercent, BoxB)}

InitFiles ==
    /\ fontAvailable \in BOOLEAN
    /\ original \in {Encoded(i) : i \in 1..Len(Images)} \cup {Corrupt, NoFile}
    /\ img = NoImage
    /\ source_blocks \in SeqsUpTo(FilesPool, MaxRegions)
    /\ translated_blocks =
          [k \in 1..Len(source_blocks) |->
              TextBlock(TxtSiOk, source_blocks[k].bounding_box)]
    /\ idx = 1
    /\ pc = "open"
    /\ output = NoImage
    /\ writes = <<>>
    /\ input = <<>>
    /\ calls = <<>>
    /\ original_path = PathIn
    /\ output_path \in Paths
    /\ \E other \in {NoFile, Encoded(Len(Images))} :
          files = [p \in Paths |-> IF p = original_path THEN original
                                   ELSE IF p = PathOther THEN other ELSE NoFile]
    /\ dirs \in {{Parent(original_path)}, {Parent(original_path), Parent(PathOut)}}
    /\ before = [files |-> files, dirs |-> dirs]
    /\ returned = NoPath
    /\ running = <<>>
    /\ metrics = <<>>

(* Faulty variant of the failure below: the output directory is made       *)
(* before the source is opened.                                            *)
OpenFailsAfterMkdir ==
    /\ pc = "open"
    /\ ~Decodable(files[original_path])
    /\ dirs' = dirs \cup Ancestors(output_path)
    /\ pc' = "raised"
    /\ UNCHANGED <<fontAvailable, original, img, source_blocks, translated_blocks, idx,
                   output, writes, input, calls>>
    /\ UNCHANGED <<args, files, returned, metrics>>

(* Image.open(original_path) raises (FileNotFoundError, or                 *)
(* UnidentifiedImageError): the call ends at line 57.                      *)
OpenFails ==
    /\ pc = "open"
    /\ ~Decodable(files[original_path])
    /\ pc' = "raised"
    /\ UNCHANGED <<fontAvailable, original, img, source_blocks, translated_blocks, idx,
                   output, writes, input, calls>>
    /\ UNCHANGED <<args, world>>

NextFiles ==
    Open \/ OpenFails \/ SkipMalformed \/ SkipNonTranslatable \/ Reinsert \/ Save

SpecFiles == InitFiles /\ [][NextFiles]_vars

(***************************************************************************)
(* Several calls of reinsert_raster running at once (threads, or tasks of  *)
(* a pool), interleaved statement by statement.  Each call has its own     *)
(* locals (img, draw, the loop position); the calls share the file system  *)
(* and the installed fonts, and nothing else: the module has no mutable    *)
(* global and _load_font keeps no cache.  `calls` logs who stepped.        *)
(***************************************************************************)
Calls == {"first", "second"}

CallJobs ==
    {[source_blocks |-> <<TextBlock(TxtOk, BoxA)>>,
      translated_blocks |-> <<TextBlock(TxtSiOk, BoxA)>>],
     [source_blocks |-> <<TextBlock(TxtPort, BoxC), TextBlock(TxtPercent, BoxB)>>,
      translated_blocks |-> <<TextBlock(TxtOk, BoxC), TextBlock(TxtOk, BoxB)>>],
     [source_blocks |-> <<TextBlock(TxtOk, BoxOnePoint), TextBlock(TxtSave, BoxB)>>,
      translated_blocks |-> <<TextBlock(TxtOk, BoxOnePoint), TextBlock(TxtSiOk, BoxB)>>]}

OutputOf(c) == IF c = "first" THEN PathOut ELSE PathDeep

InitCalls ==
    /\ fontAvailable \in BOOLEAN
    /\ original = Encoded(1)
    /\ img = NoImage
    /\ source_blocks = <<>>
    /\ translated_blocks = <<>>
    /\ idx = 1
    /\ pc = "calls"
    /\ output = NoImage
    /\ writes = <<>>
    /\ input = <<>>
    /\ calls = <<>>
    /\ original_path = PathIn
    /\ output_path = PathOut
    /\ files = [p \in Paths |-> IF p = PathIn THEN Encoded(1)
                             ELSE IF p = PathOther THEN Encoded(Len(Images))
                             ELSE NoFile]
    /\ dirs = {Parent(PathIn)}
    /\ before = [files |-> files, dirs |-> dirs]
    /\ returned = NoPath
    /\ metrics = <<>>
    /\ \E source \in [Calls -> {PathIn, PathOther}], job \in [Calls -> CallJobs] :
          running = [c \in Calls |->
                        [original_path |-> source[c],
                         output_path |-> OutputOf(c),
                         source_blocks |-> job[c].source_blocks,
                         translated_blocks |-> job[c].translated_blocks,
                         img |-> NoImage, idx |-> 1, pc |-> "open",
                         returned |-> NoPath]]

(* Faulty variant of the open below: the canvas is one module-level object *)
(* that every running call paints on.                                      *)
CallOpenShared(c) ==
    /\ pc = "calls"
    /\ running[c].pc = "open"
    /\ Decodable(files[running[c].original_path])
    /\ running' =
          [d \in Calls |->
              IF d = c
              THEN [running[c] EXCEPT !.img = Decoded(files[running[c].original_path]),
                                      !.pc = "loop"]
              ELSE IF running[d].pc = "loop"
              THEN [running[d] EXCEPT !.img = Decoded(files[running[c].original_path])]
              ELSE running[d]]
    /\ calls' = Append(calls, c)
    /\ UNCHANGED <<fontAvailable, original, img, source_blocks, translated_blocks, idx,
                   pc, output, writes, input>>
    /\ UNCHANGED <<original_path, output_path, before, world>>

(* Lines 57-58 of call c. *)
CallOpen(c) ==
    /\ pc = "calls"
    /\ running[c].pc = "open"
    /\ Decodable(files[running[c].original_path])
    /\ running' = [running EXCEPT
                     ![c].img = Decoded(files[running[c].original_path]),
                     ![c].pc = "loop"]
    /\ calls' = Append(calls, c)
    /\ UNCHANGED <<fontAvailable, original, img, source_blocks, translated_blocks, idx,
                   pc, output, writes, input>>
    /\ UNCHANGED <<original_path, output_path, before, world>>

CallZipLen(c) == Min(Len(running[c].source_blocks), Len(running[c].translated_blocks))

CallZipped(c) ==
    [k \in 1..CallZipLen(c) |->
        <<running[c].source_blocks[k], running[c].translated_blocks[k]>>]

(* One iteration of the loop of call c (lines 60-85). *)
CallStep(c) ==
    /\ pc = "calls"
    /\ running[c].pc = "loop"
    /\ running[c].idx <= CallZipLen(c)
    /\ running' = [running EXCEPT
                     ![c].img = RunRegions(running[c].img,
                                           <<CallZipped(c)[running[c].idx]>>),
                     ![c].idx = running[c].idx + 1]
    /\ calls' = Append(calls, c)
    /\ UNCHANGED <<fontAvailable, original, img, source_blocks, translated_blocks, idx,
                   pc, output, writes, input>>
    /\ UNCHANGED <<original_path, output_path, before, world>>

(* Lines 87-90 of call c. *)
CallSave(c) ==
    /\ pc = "calls"
    /\ running[c].pc = "loop"
    /\ running[c].idx > CallZipLen(c)
    /\ dirs' = dirs \cup Ancestors(running[c].output_path)
    /\ files' = [files EXCEPT
                   ![running[c].output_path] = Saved(ConvertRGB(running[c].img))]
    /\ running' = [running EXCEPT ![c].pc = "done",
                                  ![c].returned = running[c].output_path]
    /\ calls' = Append(calls, c)
    /\ UNCHANGED <<fontAvailable, original, img, source_blocks, translated_blocks, idx,
                   pc, output, writes, input>>
    /\ UNCHANGED <<original_path, output_path, before, returned, metrics>>

NextCalls == \E c \in Calls : CallOpen(c) \/ CallStep(c) \/ CallSave(c)

SpecCalls == InitCalls /\ [][NextCalls]_vars

(***************************************************************************)
(* Direct calls of _is_non_translatable on bounded texts.                  *)
(***************************************************************************)
ClassifyAlphabet == {"1", "a", "@", ".", " "}

Examples == {TxtOk, TxtPort, TxtSave, TxtPercent, TxtEmail, TxtPhone, TxtIP, TxtGuid}
Before == {<<>>, <<" ">>, <<"\t", " ">>, <<"I", "d", " ">>, <<"'">>, <<"1">>}
After == {<<>>, <<"\n">>, <<" ", "x">>, <<"\"">>, <<"\n", "x">>, <<".", "5">>}

ClassifyInputs ==
    SeqsUpTo(ClassifyAlphabet, MaxClassifyLen)
        \cup {b \o e \o a : b \in Before, e \in Examples, a \in After}

Idle ==
    /\ original = Encoded(1)
    /\ img = NoImage
    /\ source_blocks = <<>>
    /\ translated_blocks = <<>>
    /\ idx = 1
    /\ output = NoImage
    /\ writes = <<>>
    /\ calls = <<>>
    /\ original_path = PathIn
    /\ output_path = PathOut
    /\ files = OneFile(original_path, original)
    /\ dirs = {Parent(original_path)}
    /\ before = [files |-> files, dirs |-> dirs]
    /\ returned = NoPath
    /\ running = <<>>
    /\ metrics = <<>>

InitClassify ==
    /\ Idle
    /\ fontAvailable = TRUE
    /\ input \in ClassifyInputs
    /\ pc = "classify"

Classify ==
    /\ pc = "classify"
    /\ calls' = <<[text |-> input, result |-> _is_non_translatable(input)]>>
    /\ pc' = "classified"
    /\ UNCHANGED <<fontAvailable, original, img, source_blocks, translated_blocks, idx,
                   output, writes, input>>
    /\ UNCHANGED <<args, world>>

NextClassify == Classify

SpecClassify == InitClassify /\ [][NextClassify]_vars

(***************************************************************************)
(* Direct calls of _fit_text on bounded texts and rectangles: the text,    *)
(* then one of its proper non-empty prefixes, in the same rectangle.       *)
(***************************************************************************)
FitAlphabet == {"a", "W", " "}

InitFit ==
    /\ Idle
    /\ fontAvailable \in BOOLEAN
    /\ input \in [text : SeqsUpTo(FitAlphabet, MaxFitLen),
                  rect : {<<0, 0, w, 4>> : w \in 0..MaxRectW}]
    /\ pc = "fit"

FitCall(text, rect) ==
    LET fit == _fit_text(text, rect)
    IN  [text |-> text, rect |-> rect, font |-> fit.font, lines |-> fit.lines]

Fit ==
    /\ pc = "fit"
    /\ calls' = <<FitCall(input.text, input.rect)>>
    /\ pc' = "fitted"
    /\ UNCHANGED <<fontAvailable, original, img, source_blocks, translated_blocks, idx,
                   output, writes, input>>
    /\ UNCHANGED <<args, world>>

FitPrefix ==
    /\ pc = "fitted"
    /\ \E k \in 1..(Len(input.text) - 1) :
          calls' = Append(calls, FitCall(SubSeq(input.text, 1, k), input.rect))
    /\ pc' = "compared"
    /\ UNCHANGED <<fontAvailable, original, img, source_blocks, translated_blocks, idx,
                   output, writes, input>>
    /\ UNCHANGED <<args, world>>

NextFit == Fit \/ FitPrefix

SpecFit == InitFit /\ [][NextFit]_vars

(***************************************************************************)
(* Direct calls of _fit_text: a text in a rectangle, then the same text in *)
(* a rectangle of the same width placed elsewhere, with another height     *)
(* (zero and negative heights included).                                   *)
(***************************************************************************)
Placements ==
    {[x0 |-> 0, y0 |-> 0, y1 |-> 1], [x0 |-> 3, y0 |-> 7, y1 |-> 7],
     [x0 |-> 2, y0 |-> -5, y1 |-> 40], [x0 |-> 0, y0 |-> 9, y1 |-> 2]}

FitMoved ==
    /\ pc = "fitted"
    /\ \E p \in Placements :
          calls' = Append(calls,
                          FitCall(input.text,
                                  <<p.x0, p.y0,
                                    p.x0 + (input.rect[3] - input.rect[1]), p.y1>>))
    /\ pc' = "moved"
    /\ UNCHANGED <<fontAvailable, original, img, source_blocks, translated_blocks, idx,
                   output, writes, input>>
    /\ UNCHANGED <<args, world>>

NextFitMoved == Fit \/ FitMoved

SpecFitMoved == InitFit /\ [][NextFitMoved]_vars

(***************************************************************************)
(* Direct calls of _sample_background: a rectangle with float coordinates  *)
(* (in halves of a pixel) on a canvas of two colours, then the same        *)
(* rectangle on another such canvas.  A canvas is the background colour    *)
(* with the glyph colour on one block of pixels.                           *)
(***************************************************************************)
Red == <<200, 10, 10, 255>>
Leaf == <<10, 200, 10, 128>>

TonePairs ==
    {[bg |-> Grey, glyph |-> Black], [bg |-> Black, glyph |-> Grey],
     [bg |-> Red, glyph |-> Leaf]}

GlyphBlocks ==
    {<<0, 0, -1, -1>>, <<1, 1, 1, 1>>, <<1, 1, 4, 4>>, <<1, 1, 2, 4>>, <<2, 2, 5, 3>>}

TwoTone(tone, block) ==
    [width |-> CanvasW, height |-> CanvasH, mode |-> "RGBA",
     data |-> [p \in PixelsOf(CanvasW, CanvasH) |->
                  IF /\ block[1] <= p[1] /\ p[1] <= block[3]
                     /\ block[2] <= p[2] /\ p[2] <= block[4]
                  THEN tone.glyph ELSE tone.bg]]

SampleXs == {-3, 2, 5, 17, 2 * CanvasW + 3}
SampleYs == {-3, 2, 13, 2 * CanvasH + 3}
SampleRects == {<<x0, y0, x1, y1>> : x0 \in SampleXs, y0 \in SampleYs,
                                     x1 \in SampleXs, y1 \in SampleYs}

(* x0, y0, x1, y1 = [int(v) for v in rect] (line 177). *)
IntRect(rect) == <<int(rect[1]), int(rect[2]), int(rect[3]), int(rect[4])>>

(* Lines 177-179: the rectangle as _sample_background clamps it. *)
clipToCanvas(image, rect) == ClipRect(image, IntRect(rect))

SampleCall(tone, block, rect) ==
    [tone |-> tone, block |-> block, rect |-> rect,
     clipped |-> clipToCanvas(TwoTone(tone, block), rect),
     bg_color |-> _sample_background(TwoTone(tone, block), IntRect(rect))]

InitSample ==
    /\ Idle
    /\ fontAvailable = TRUE
    /\ input \in [tone : TonePairs, block : GlyphBlocks, rect : SampleRects]
    /\ pc = "sample"

Sample ==
    /\ pc = "sample"
    /\ calls' = <<SampleCall(input.tone, input.block, input.rect)>>
    /\ pc' = "sampled"
    /\ UNCHANGED <<fontAvailable, original, img, source_blocks, translated_blocks, idx,
                   output, writes, input>>
    /\ UNCHANGED <<args, world>>

SampleOther ==
    /\ pc = "sampled"
    /\ \E tone \in TonePairs, block \in GlyphBlocks :
          calls' = Append(calls, SampleCall(tone, block, input.rect))
    /\ pc' = "resampled"
    /\ UNCHANGED <<fontAvailable, original, img, source_blocks, translated_blocks, idx,
                   output, writes, input>>
    /\ UNCHANGED <<args, world>>

NextSample == Sample \/ SampleOther

SpecSample == InitSample /\ [][NextSample]_vars

(***************************************************************************)
(* translate_blocks (src/pipeline/translator.py): the backend's response   *)
(* text is parsed into one translation per source block.  A block here     *)
(* carries all five fields of TextBlock.                                   *)
(***************************************************************************)
(* str.splitlines(), for the line break "\n". *)
RECURSIVE splitlines(_)
splitlines(s) ==
    IF Len(s) = 0 THEN <<>>
    ELSE LET stops == {k \in 1..Len(s) : s[k] = "\n"}
         IN  IF stops = {} THEN <<s>>
             ELSE LET n == CHOOSE k \in stops : \A j \in stops : k <= j
                  IN  <<SubSeq(s, 1, n - 1)>> \o splitlines(SubSeq(s, n + 1, Len(s)))

(* line.find("."), 0-based; -1 when there is none. *)
find_dot(line) ==
    LET dots == {k \in 1..Len(line) : line[k] = "."}
    IN  IF dots = {} THEN -1
        ELSE (CHOOSE k \in dots : \A j \in dots : k <= j) - 1

(* The for-loop of _parse_response (lines 123-131). *)
RECURSIVE ParseLines(_)
ParseLines(lines) ==
    IF Len(lines) = 0 THEN <<>>
    ELSE LET line == strip(Head(lines))
             dot_pos == find_dot(line)
         IN  IF Len(line) = 0 THEN ParseLines(Tail(lines))
             ELSE IF line[1] \in Digit /\ dot_pos # -1
             THEN <<strip(SubSeq(line, dot_pos + 2, Len(line)))>>
                      \o ParseLines(Tail(lines))
             ELSE <<line>> \o ParseLines(Tail(lines))

_parse_response(response_text, expected_count) ==
    LET results == ParseLines(splitlines(strip(response_text)))
    IN  [k \in 1..expected_count |->
            IF k <= Len(results) THEN results[k] ELSE <<>>]

(* translate_blocks, given which backend is configured and the text that   *)
(* backend answers with.                                                   *)
translate_blocks(blocks, backend, response_text) ==
    IF Len(blocks) = 0 THEN [raised |-> FALSE, blocks |-> <<>>]
    ELSE IF backend = "none" THEN [raised |-> TRUE, blocks |-> <<>>]
    ELSE LET translated_texts == _parse_response(response_text, Len(blocks))
         IN  [raised |-> FALSE,
              blocks |-> [k \in 1..Len(blocks) |->
                             [text |-> translated_texts[k],
                              bounding_box |-> blocks[k].bounding_box,
                              page |-> blocks[k].page,
                              confidence |-> blocks[k].confidence,
                              element_id |-> blocks[k].element_id]]]

(* Inputs: source blocks, and responses made of lines. *)
NoId == "None"

TranslatePool ==
    {[text |-> TxtOk, bounding_box |-> BoxA, page |-> 1, confidence |-> 90,
      element_id |-> NoId],
     [text |-> TxtSave, bounding_box |-> BoxC, page |-> 2, confidence |-> 45,
      element_id |-> "text7"]}

LineSi == <<"1", ".", " ", "S", "i">>
LineNo == <<"2", ".", " ", "N", "o">>
LineVa == <<" ", "3", ".", "V", "a", " ">>
LineSize == <<"2", ".", " ", "1", ".", "5", "G">>
LineHere == <<"H", "e", "r", "e", ":">>
LineBare == <<"5", " ", "G", ".">>
LinePool == {LineSi, LineNo, LineVa, LineSize, LineHere, LineBare, <<>>}

RECURSIVE JoinLines(_)
JoinLines(lines) ==
    IF Len(lines) = 0 THEN <<>>
    ELSE IF Len(lines) = 1 THEN lines[1]
    ELSE lines[1] \o <<"\n">> \o JoinLines(Tail(lines))

InitTranslate ==
    /\ Idle
    /\ fontAvailable = TRUE
    /\ input \in [blocks : SeqsUpTo(TranslatePool, MaxRegions),
                  backend : {"foundry", "openai", "none"},
                  lines : SeqsUpTo(LinePool, MaxLines)]
    /\ pc = "translate"

Translate ==
    /\ pc = "translate"
    /\ calls' = <<[blocks |-> input.blocks,
                   result |-> translate_blocks(input.blocks, input.backend,
                                               JoinLines(input.lines))]>>
    /\ pc' = "translated"
    /\ UNCHANGED <<fontAvailable, original, img, source_blocks, translated_blocks, idx,
                   output, writes, input>>
    /\ UNCHANGED <<args, world>>

NextTranslate == Translate

SpecTranslate == InitTranslate /\ [][NextTranslate]_vars

(***************************************************************************)
(* Direct calls of _wrap_text on bounded texts and widths, at the size     *)
(* _fit_text wraps at.                                                     *)
(***************************************************************************)
InitWrap ==
    /\ Idle
    /\ fontAvailable \in BOOLEAN
    /\ input \in [text : SeqsUpTo(FitAlphabet, MaxFitLen), max_width : 1..MaxRectW]
    /\ pc = "wrap"

Wrap ==
    /\ pc = "wrap"
    /\ calls' = <<[text |-> input.text, font |-> _load_font(min_size),
                   max_width |-> input.max_width,
                   lines |-> _wrap_text(input.text, _load_font(min_size),
                                        input.max_width)]>>
    /\ pc' = "wrapped"
    /\ UNCHANGED <<fontAvailable, original, img, source_blocks, translated_blocks, idx,
                   output, writes, input>>
    /\ UNCHANGED <<args, world>>

NextWrap == Wrap

SpecWrap == InitWrap /\ [][NextWrap]_vars

(***************************************************************************)
(* Properties of the classifier (SpecClassify).                            *)
(***************************************************************************)
(* The trimmed text as a whole has the shape of one of the four patterns. *)
FullMatch(text) ==
    LET t == strip(text)
    IN  MatchGuid(t) \/ MatchEmail(t) \/ MatchIP(t) \/ MatchNumeric(t)

(* Some proper part of the trimmed text has the shape of a pattern. *)
ContainsPattern(text) ==
    LET t == strip(text)
    IN  \E i \in 1..Len(t) : \E j \in i..Len(t) :
            /\ j - i + 1 < Len(t)
            /\ MatchGroup(SubSeq(t, i, j))

(* C3: _is_non_translatable(text) is true exactly when the trimmed text    *)
(* matches one of the four patterns in full (GUID, email, IPv4-like,       *)
(* digits/whitespace/.,-+%: only); a text that only contains such a        *)
(* pattern inside longer content is classified translatable.               *)
C3_FullMatchOnly ==
    \A k \in 1..Len(calls) :
        pc = "classified" =>
            /\ calls[k].result = FullMatch(calls[k].text)
            /\ (ContainsPattern(calls[k].text) /\ ~FullMatch(calls[k].text))
                   => calls[k].result = FALSE

(* A label followed by a number was classified translatable. *)
C3_Witness ==
    /\ pc = "classified"
    /\ calls[1].text = <<"I", "d", " ">> \o TxtPhone
    /\ calls[1].result = FALSE

(***************************************************************************)
(* Properties of the text fitter (SpecFit).                                *)
(***************************************************************************)
FitCalls == IF pc \in {"fitted", "compared"} THEN 1..Len(calls) ELSE {}

MaxWOf(call) == Max(1, call.rect[3] - call.rect[1])

(* The sizes of min_size..default_size at which the whole text fits. *)
FittingSizes(call) ==
    {S \in min_size..default_size : textwidth(call.text, _load_font(S)) <= MaxWOf(call)}

Largest(S) == CHOOSE v \in S : \A u \in S : u <= v

RECURSIVE Flatten(_)
Flatten(ss) == IF Len(ss) = 0 THEN <<>> ELSE Head(ss) \o Flatten(Tail(ss))

(* The words of the lines, line by line. *)
WordsOfLines(lines) == Flatten([k \in 1..Len(lines) |-> split(lines[k])])

RECURSIVE JoinWords(_)
JoinWords(words) ==
    IF Len(words) = 0 THEN <<>>
    ELSE IF Len(words) = 1 THEN words[1]
    ELSE words[1] \o <<" ">> \o JoinWords(Tail(words))

(* C5: if some size in 7..13 fits the text on one line, the result is the  *)
(* single line [text] at the largest such size; the text is wrapped at     *)
(* size 7 only when no size in 7..13 fits it on one line.                  *)
C5_LargestFittingSize ==
    \A k \in FitCalls :
        LET c == calls[k]
            fitting == FittingSizes(c)
        IN  /\ fitting # {} =>
                  /\ c.lines = <<c.text>>
                  /\ c.font = _load_font(Largest(fitting))
                  /\ \A S \in (Largest(fitting) + 1)..default_size :
                        textwidth(c.text, _load_font(S)) > MaxWOf(c)
            /\ fitting = {} =>
                  /\ c.font = _load_font(min_size)
                  /\ c.lines = _wrap_text(c.text, _load_font(min_size), MaxWOf(c))

(* The loop stepped down: the text fits at a size strictly inside 7..13. *)
C5_Witness ==
    \E k \in FitCalls :
        /\ FittingSizes(calls[k]) # {}
        /\ Largest(FittingSizes(calls[k])) \in (min_size + 1)..(default_size - 1)
        /\ calls[k].font.size = Largest(FittingSizes(calls[k]))
        /\ fontAvailable

(* C6: for every text (the empty and the whitespace-only ones included)    *)
(* and every rectangle, _fit_text ends either with the single line [text]  *)
(* at a size of 7..13 or with a wrapped line list at size 7; the line      *)
(* list is never empty.                                                    *)
C6_TwoOutcomes ==
    \A k \in FitCalls :
        LET c == calls[k]
            single == /\ c.lines = <<c.text>>
                      /\ c.font.size \in min_size..default_size
                      /\ textwidth(c.text, c.font) <= MaxWOf(c)
            wrapped == /\ c.font.size = min_size
                       /\ textwidth(c.text, c.font) > MaxWOf(c)
                       /\ \/ c.lines = <<c.text>>
                          \/ \A n \in 1..Len(c.lines) :
                                /\ Len(c.lines[n]) > 0
                                /\ c.lines[n] = JoinWords(split(c.lines[n]))
        IN  /\ Len(c.lines) >= 1
            /\ (single /\ ~wrapped) \/ (wrapped /\ ~single)

(* A whitespace-only text that fits at no size came back as one line. *)
C6_Witness ==
    \E k \in FitCalls :
        /\ Len(calls[k].text) > 0
        /\ split(calls[k].text) = <<>>
        /\ FittingSizes(calls[k]) = {}
        /\ calls[k].lines = <<calls[k].text>>

(* C7: wrap coverage: for a non-empty text and any width, the words of the *)
(* returned lines, line by line, are the whitespace-separated words of the *)
(* text: none dropped, duplicated, reordered or split.                     *)
C7_WrapCoverage ==
    \A k \in FitCalls :
        Len(calls[k].text) > 0 =>
            WordsOfLines(calls[k].lines) = split(calls[k].text)

(* A text of three words was wrapped into several lines. *)
C7_Witness ==
    \E k \in FitCalls :
        /\ Len(split(calls[k].text)) >= 3
        /\ Len(calls[k].lines) >= 2

IsPrefix(a, b) == Len(a) <= Len(b) /\ a = SubSeq(b, 1, Len(a))

(* C9: fit monotonicity: for a fixed rectangle width and non-empty texts   *)
(* A, B with A a prefix of B, the size chosen for A is >= the size chosen  *)
(* for B.                                                                  *)
C9_FitMonotone ==
    \A i, j \in FitCalls :
        (/\ Len(calls[i].text) > 0
         /\ IsPrefix(calls[i].text, calls[j].text)
         /\ MaxWOf(calls[i]) = MaxWOf(calls[j]))
            => calls[i].font.size >= calls[j].font.size

(* A prefix got a strictly larger size than the text it starts. *)
C9_Witness ==
    \E i, j \in FitCalls :
        /\ Len(calls[i].text) > 0
        /\ IsPrefix(calls[i].text, calls[j].text)
        /\ calls[i].font.size > calls[j].font.size
        /\ calls[j].font.size > min_size

(***************************************************************************)
(* Properties of reinsert_raster (Spec).                                   *)
(***************************************************************************)
(* The source text is a protected string: trimmed, it matches a pattern. *)
ProtectedText(text) == FullMatch(text)

WellFormed(block) == Len(block.bounding_box) >= 4

RGB(pixel) == <<pixel[1], pixel[2], pixel[3]>>

(* What a logged region step covered: its fill and its drawn lines. *)
FillOf(w) == RectPixels(Decoded(original), w.rect)
InkOf(w) == LinesInk(Decoded(original), w.rect, w.fit)
CoverOf(w) == FillOf(w) \cup InkOf(w)

(* The region step of the loop is taken for region idx. *)
StepOfRegion == pc = "loop" /\ idx <= ZipLen /\ idx' = idx + 1

(* C1: for every index whose source text, trimmed, fully matches a         *)
(* protected pattern, the step for that region leaves the whole canvas     *)
(* unchanged: no fill, no text draw, whatever the translated text is.      *)
C1_ProtectedStepLeavesCanvas ==
    [][(StepOfRegion /\ ProtectedText(source_blocks[idx].text))
          => (img' = img /\ writes' = writes)]_vars

(* The step of a protected, well-formed region has been taken. *)
C1_Witness ==
    /\ pc = "loop"
    /\ idx > 1
    /\ idx - 1 <= ZipLen
    /\ WellFormed(source_blocks[idx - 1])
    /\ ProtectedText(source_blocks[idx - 1].text)
    /\ source_blocks[idx - 1].text = TxtIP
    /\ writes = <<>>
    /\ img = Decoded(original)

(* C2 as claimed: for any image and any list of region pairs, every pixel  *)
(* inside the rectangle of a region with a protected source text has the   *)
(* same value in the output image as in the input image.                   *)
C2_AsClaimed ==
    pc = "done" =>
        \A i \in 1..Len(source_blocks) :
            (WellFormed(source_blocks[i]) /\ ProtectedText(source_blocks[i].text)) =>
                \A p \in RectPixels(Decoded(original),
                                    _polygon_to_rect(source_blocks[i].bounding_box)) :
                    output.data[p] = RGB(Decoded(original).data[p])

(* C2 amended: every pixel inside the rectangle of a region with a         *)
(* protected source text that is covered by no other region's fill or      *)
(* drawn text has the same colour in the output image as in the input      *)
(* image.                                                                  *)
C2_ProtectedPixelsKept ==
    pc = "done" =>
        LET covers == [k \in 1..Len(writes) |-> CoverOf(writes[k])]
            base == Decoded(original)
        IN  \A i \in 1..Len(source_blocks) :
                (WellFormed(source_blocks[i]) /\ ProtectedText(source_blocks[i].text)) =>
                    \A p \in RectPixels(base, _polygon_to_rect(source_blocks[i].bounding_box)) :
                        (\A k \in 1..Len(writes) :
                            writes[k].index # i => p \notin covers[k])
                            => output.data[p] = RGB(base.data[p])

(* A protected region was processed next to a painted region that covers   *)
(* part of its rectangle and not all of it.                                *)
C2_Witness ==
    /\ pc = "done"
    /\ \E i \in 1..ZipLen :
          /\ WellFormed(source_blocks[i])
          /\ ProtectedText(source_blocks[i].text)
          /\ LET r == RectPixels(Decoded(original),
                                 _polygon_to_rect(source_blocks[i].bounding_box))
             IN  /\ \E p \in r : \E k \in 1..Len(writes) : p \in CoverOf(writes[k])
                 /\ \E p \in r :
                       /\ \A k \in 1..Len(writes) : p \notin CoverOf(writes[k])
                       /\ output.data[p] = RGB(Decoded(original).data[p])

(* C4: the skip decision depends on the source text only: the step of a    *)
(* region whose source text matches no protected pattern and whose polygon *)
(* has at least 2 points fills its rectangle with the sampled background   *)
(* and draws the fitted text, also when the translated text equals the     *)
(* source text.                                                            *)
C4_TranslatableAlwaysPainted ==
    [][(/\ StepOfRegion
        /\ WellFormed(source_blocks[idx])
        /\ ~ProtectedText(source_blocks[idx].text))
          => LET rect == _polygon_to_rect(source_blocks[idx].bounding_box)
                 bg == _sample_background(img, rect)
                 fit == _fit_text(translated_blocks[idx].text, rect)
                 ink == LinesInk(img, rect, fit)
             IN  /\ writes' = Append(writes, [index |-> idx, rect |-> rect,
                                              bg_color |-> bg, fit |-> fit])
                 /\ \A p \in RectPixels(img, rect) \ ink : img'.data[p] = bg
                 /\ \A p \in ink : img'.data[p] = Black]_vars

(* A region whose translation echoes its source text has been painted. *)
C4_Witness ==
    /\ pc = "loop"
    /\ idx > 1
    /\ idx - 1 <= ZipLen
    /\ source_blocks[idx - 1].text = translated_blocks[idx - 1].text
    /\ Len(writes) > 0
    /\ writes[Len(writes)].index = idx - 1
    /\ \E p \in InkOf(writes[Len(writes)]) : img.data[p] = Black
    /\ img # Decoded(original)

(* The value a logged region step left at a pixel it covered. *)
WrittenBy(w, p) == IF p \in InkOf(w) THEN Black ELSE w.bg_color

(* C10: the region pairs are processed strictly in input order with no     *)
(* overlap detection: a pixel covered by the fill or the text of several   *)
(* painted regions holds the value written by the one with the highest     *)
(* index that wrote it (and a pixel no region wrote holds its input        *)
(* value), in the final canvas and in the saved image.                     *)
C10_LastWriterWins ==
    /\ \A k \in 1..Len(writes) :
          /\ writes[k].index < idx
          /\ k > 1 => writes[k - 1].index < writes[k].index
    /\ pc = "done" =>
          LET covers == [k \in 1..Len(writes) |-> CoverOf(writes[k])]
              inks == [k \in 1..Len(writes) |-> InkOf(writes[k])]
              base == Decoded(original).data
              \* the pixels that a region after the k-th logged one wrote
              later == [k \in 0..Len(writes) |->
                           UNION {covers[j] : j \in (k + 1)..Len(writes)}]
              Final(p, v) == img.data[p] = v /\ output.data[p] = RGB(v)
          IN  /\ \A k \in 1..Len(writes) :
                    /\ \A p \in (covers[k] \ later[k]) \cap inks[k] : Final(p, Black)
                    /\ \A p \in (covers[k] \ later[k]) \ inks[k] :
                          Final(p, writes[k].bg_color)
              /\ \A p \in DOMAIN img.data \ later[0] : Final(p, base[p])

(* Two painted regions overlap on a pixel where they wrote different       *)
(* values; the later one's value is in the saved image.                    *)
C10_Witness ==
    /\ pc = "done"
    /\ Len(writes) = 2
    /\ \E p \in CoverOf(writes[1]) \cap CoverOf(writes[2]) :
          /\ WrittenBy(writes[1], p) # WrittenBy(writes[2], p)
          /\ output.data[p] = RGB(WrittenBy(writes[2], p))

(* The zipped pairs of the call, and those among the first n whose source  *)
(* polygon has at least 2 points.                                          *)
Zipped == [k \in 1..ZipLen |-> <<source_blocks[k], translated_blocks[k]>>]
WellFormedPair(pair) == Len(pair[1].bounding_box) >= 4
WithoutMalformed(n) == SelectSeq(SubSeq(Zipped, 1, n), WellFormedPair)

(* C11: a region whose polygon has fewer than 4 coordinates is skipped     *)
(* without an error and without a change of the canvas, and the regions    *)
(* after it are processed exactly as if it were absent: at every point of  *)
(* the loop the canvas is what the pairs so far, the malformed ones taken  *)
(* out, make of the input image, and so is the saved image at the end.     *)
C11_MalformedSkipped ==
    /\ pc # "raised"
    /\ \A k \in 1..Len(writes) : WellFormed(source_blocks[writes[k].index])
    /\ pc = "loop" =>
          img = RunRegions(Decoded(original), WithoutMalformed(idx - 1))
    /\ pc = "done" =>
          output = ConvertRGB(RunRegions(Decoded(original), WithoutMalformed(ZipLen)))

(* A malformed region was followed by a region that was painted. *)
C11_Witness ==
    /\ pc = "done"
    /\ \E k \in 1..Len(writes) :
          /\ writes[k].index > 1
          /\ ~WellFormed(source_blocks[writes[k].index - 1])
    /\ output # ConvertRGB(Decoded(original))

(* The rectangle is empty once clamped to the canvas. *)
Degenerate(image, rect) ==
    LET c == ClipRect(image, rect)
    IN  c[3] <= c[1] \/ c[4] <= c[2]

(* C12: the step of a region whose rectangle is degenerate after clipping  *)
(* to the canvas (zero extent, or entirely outside the image) neither      *)
(* paints a fill nor draws a text line: the canvas is unchanged by it.     *)
C12_DegenerateUntouched ==
    [][(/\ StepOfRegion
        /\ WellFormed(source_blocks[idx])
        /\ Degenerate(img, _polygon_to_rect(source_blocks[idx].bounding_box)))
       => img' = img]_vars

(***************************************************************************)
(* Properties of the background estimator (SpecSample).                    *)
(***************************************************************************)
SampleCalls == IF pc \in {"sampled", "resampled"} THEN 1..Len(calls) ELSE {}

ImageOf(c) == TwoTone(c.tone, c.block)

EmptyClip(c) == c.clipped[3] <= c.clipped[1] \/ c.clipped[4] <= c.clipped[2]

(* The pixels of the clipped rectangle (the crop of line 184). *)
RegionOf(c) ==
    (c.clipped[1]..(c.clipped[3] - 1)) \X (c.clipped[2]..(c.clipped[4] - 1))

(* The min(w, 4) x min(h, 4) pixels at the clipped rectangle's top-left. *)
WindowOf(c) ==
    (c.clipped[1]..(c.clipped[1] + Min(c.clipped[3] - c.clipped[1], SampleMax) - 1))
        \X (c.clipped[2]..(c.clipped[2] + Min(c.clipped[4] - c.clipped[2], SampleMax) - 1))

ColoursIn(image, S) == {image.data[p] : p \in S}
CountOf(image, S, colour) == Cardinality({p \in S : image.data[p] = colour})

(* The colour m is on more than half of the pixels of S, which hold        *)
(* exactly two colours.                                                    *)
MajorityOfTwo(image, S, m) ==
    /\ Cardinality(ColoursIn(image, S)) = 2
    /\ 2 * CountOf(image, S, m) > Cardinality(S)

(* The middle element of the sorted channel values over S: the element at  *)
(* 0-based position |S| div 2 (the upper middle one when |S| is even).     *)
MedianOver(image, S, ch) ==
    CHOOSE v \in {image.data[p][ch] : p \in S} :
        /\ Cardinality({p \in S : image.data[p][ch] < v}) <= Cardinality(S) \div 2
        /\ Cardinality({p \in S : image.data[p][ch] <= v}) > Cardinality(S) \div 2

(* C13: the estimator never returns the glyph colour as the fill: for any  *)
(* canvas in which the region (the clipped rectangle) holds exactly two    *)
(* colours, the background on the majority of its pixels and the glyph     *)
(* colour, _sample_background returns the background colour.               *)
C13_NeverGlyphColour ==
    \A k \in SampleCalls :
        LET c == calls[k]
        IN  ~EmptyClip(c) =>
                \A m \in ColoursIn(ImageOf(c), RegionOf(c)) :
                    MajorityOfTwo(ImageOf(c), RegionOf(c), m) => c.bg_color = m

(* What the corner sample does give: when the window (at most 4 x 4        *)
(* pixels at the clipped rectangle's top-left) holds exactly two colours,  *)
(* the one on more than half of the window's pixels is returned.           *)
WindowMajorityReturned ==
    \A k \in SampleCalls :
        LET c == calls[k]
        IN  ~EmptyClip(c) =>
                \A m \in ColoursIn(ImageOf(c), WindowOf(c)) :
                    MajorityOfTwo(ImageOf(c), WindowOf(c), m) => c.bg_color = m

(* The window's first pixel has the glyph colour, most of the window the   *)
(* background colour, and the background colour came back.                 *)
WindowMajorityWitness ==
    \E k \in SampleCalls :
        LET c == calls[k]
        IN  /\ ~EmptyClip(c)
            /\ MajorityOfTwo(ImageOf(c), WindowOf(c), c.tone.bg)
            /\ ImageOf(c).data[<<c.clipped[1], c.clipped[2]>>] = c.tone.glyph
            /\ c.bg_color = c.tone.bg

(* C14: for a non-empty clipped rectangle of width w and height h,         *)
(* _sample_background samples exactly the min(w, 4) x min(h, 4) pixels at  *)
(* the clipped rectangle's top-left corner, all inside the clipped bounds, *)
(* and returns for each of R, G, B, A independently the median of that     *)
(* channel over the sampled pixels (the middle element of the sorted       *)
(* values).                                                                *)
C14_CornerMedian ==
    \A k \in SampleCalls :
        LET c == calls[k]
        IN  ~EmptyClip(c) =>
                /\ WindowOf(c) \subseteq RegionOf(c)
                /\ c.bg_color = <<MedianOver(ImageOf(c), WindowOf(c), 1),
                                  MedianOver(ImageOf(c), WindowOf(c), 2),
                                  MedianOver(ImageOf(c), WindowOf(c), 3),
                                  MedianOver(ImageOf(c), WindowOf(c), 4)>>

(* A region larger than its 4 x 4 window, whose window holds both colours  *)
(* in equal numbers: the channels' medians come from different pixels.     *)
C14_Witness ==
    \E k \in SampleCalls :
        LET c == calls[k]
        IN  /\ ~EmptyClip(c)
            /\ Cardinality(WindowOf(c)) = SampleMax * SampleMax
            /\ WindowOf(c) # RegionOf(c)
            /\ 2 * CountOf(ImageOf(c), WindowOf(c), c.tone.bg) = Cardinality(WindowOf(c))
            /\ c.bg_color \notin {c.tone.bg, c.tone.glyph}

(* C15: for a rectangle that clips to empty (x1 <= x0 or y1 <= y0 after    *)
(* clamping), _sample_background returns exactly (255, 255, 255, 255) and  *)
(* reads no pixel: the result is the same whatever the canvas holds.       *)
C15_EmptyFallback ==
    \A k \in SampleCalls :
        EmptyClip(calls[k]) =>
            /\ calls[k].bg_color = White
            /\ \A j \in SampleCalls :
                  calls[j].rect = calls[k].rect => calls[j].bg_color = calls[k].bg_color

(* The same empty rectangle was sampled on two canvases that differ and    *)
(* hold no white pixel; white came back both times.                        *)
C15_Witness ==
    /\ pc = "resampled"
    /\ EmptyClip(calls[1])
    /\ calls[1].tone # calls[2].tone
    /\ White \notin ColoursIn(ImageOf(calls[1]), DOMAIN ImageOf(calls[1]).data)
    /\ calls[1].bg_color = White /\ calls[2].bg_color = White

(* C16: clamping a rectangle to the canvas is idempotent: clamping the     *)
(* clamped rectangle again, for the same canvas size, gives it back.       *)
C16_ClipIdempotent ==
    \A k \in SampleCalls :
        LET c == calls[k]
        IN  clipToCanvas(ImageOf(c), <<float(c.clipped[1]), float(c.clipped[2]),
                                       float(c.clipped[3]), float(c.clipped[4])>>)
                = c.clipped

(* A rectangle with a fractional coordinate that the clamp moved on both   *)
(* sides was clamped.                                                      *)
C16_Witness ==
    \E k \in SampleCalls :
        LET c == calls[k]
        IN  /\ c.clipped[1] # int(c.rect[1]) /\ c.clipped[3] # int(c.rect[3])
            /\ float(int(c.rect[2])) # c.rect[2]
            /\ ~EmptyClip(c)

(***************************************************************************)
(* Properties of reinsert_raster on the file system (SpecFiles, Spec).     *)
(***************************************************************************)
(* C17: for every call, the file at original_path has the same content     *)
(* after the call as before it; the only file written is output_path       *)
(* (whose parent directories exist afterwards), and output_path is         *)
(* returned.                                                               *)
C17_SourceKept ==
    pc = "done" =>
        /\ files[original_path] = before.files[original_path]
        /\ \A p \in Paths \ {output_path} : files[p] = before.files[p]
        /\ files[output_path] = Saved(output)
        /\ dirs = before.dirs \cup Ancestors(output_path)
        /\ returned = output_path

(* What holds of the files: the same, for the calls whose output_path is   *)
(* not the source's own path.                                              *)
SourceKeptUnlessAliased ==
    (pc = "done" /\ output_path # original_path) =>
        /\ files[original_path] = before.files[original_path]
        /\ \A p \in Paths \ {output_path} : files[p] = before.files[p]
        /\ files[output_path] = Saved(output)
        /\ dirs = before.dirs \cup Ancestors(output_path)
        /\ returned = output_path

(* C18: the canvas keeps the input image's pixel dimensions through every  *)
(* region step, and the saved output has the same dimensions and is        *)
(* flattened to opaque RGB: three channels, no alpha.                      *)
C18_DimensionsKept ==
    /\ pc \in {"loop", "done"} =>
          /\ img.width = Decoded(original).width
          /\ img.height = Decoded(original).height
          /\ DOMAIN img.data = PixelsOf(Decoded(original).width, Decoded(original).height)
    /\ pc = "done" =>
          /\ output.width = Decoded(original).width
          /\ output.height = Decoded(original).height
          /\ DOMAIN output.data = PixelsOf(Decoded(original).width, Decoded(original).height)
          /\ output.mode = "RGB"
          /\ \A p \in DOMAIN output.data : Len(output.data[p]) = 3
          /\ files[output_path] = Saved(output)

(* An image with translucent pixels went through a painted region and was  *)
(* saved.                                                                  *)
C18_Witness ==
    /\ pc = "done"
    /\ Len(writes) >= 1
    /\ \E p \in DOMAIN Decoded(original).data : Decoded(original).data[p][4] < 255
    /\ output.mode = "RGB"

(* C20: if the source image cannot be opened or decoded, the call fails    *)
(* before any region is processed, and it creates or changes no output     *)
(* file and no output directory.                                           *)
C20_OpenFailureLeavesNothing ==
    /\ ~Decodable(before.files[original_path]) => pc \in {"open", "raised"}
    /\ pc = "raised" =>
          /\ ~Decodable(before.files[original_path])
          /\ img = NoImage /\ idx = 1 /\ writes = <<>> /\ output = NoImage
          /\ files = before.files
          /\ dirs = before.dirs
          /\ returned = NoPath

(* The call failed on a file that is no image, with regions to process and *)
(* an output directory that did not exist.                                 *)
C20_Witness ==
    /\ pc = "raised"
    /\ original = Corrupt
    /\ ZipLen >= 1
    /\ Parent(output_path) \notin dirs

(***************************************************************************)
(* Properties of concurrent calls (SpecCalls).                             *)
(***************************************************************************)
(* What call c makes of its source image when it runs alone. *)
Alone(c, n) ==
    RunRegions(Decoded(before.files[running[c].original_path]),
               SubSeq(CallZipped(c), 1, n))

(* C19: reinsert_raster shares no mutable state across calls: calls with   *)
(* distinct output paths, interleaved in any order, each produce exactly   *)
(* the output they would produce alone, a function of the call's own       *)
(* image, source regions and translated regions only.                      *)
C19_CallsIsolated ==
    \A c \in DOMAIN running :
        /\ running[c].pc = "loop" =>
              running[c].img = Alone(c, running[c].idx - 1)
        /\ running[c].pc = "done" =>
              /\ files[running[c].output_path] =
                     Saved(ConvertRGB(Alone(c, CallZipLen(c))))
              /\ running[c].returned = running[c].output_path
        /\ files[running[c].original_path] = before.files[running[c].original_path]

(* Two calls on the same source image with different regions took turns    *)
(* step by step; both painted and both saved, to different results.        *)
C19_Witness ==
    /\ pc = "calls"
    /\ \A c \in Calls : running[c].pc = "done"
    /\ running["first"].original_path = running["second"].original_path
    /\ files[PathOut] # files[PathDeep]
    /\ \A c \in Calls :
          files[running[c].output_path]
              # Saved(ConvertRGB(Decoded(before.files[running[c].original_path])))
    /\ \E i, j, k, l \in 1..Len(calls) :
          /\ i < j /\ j < k /\ k < l
          /\ calls[i] = "first" /\ calls[j] = "second"
          /\ calls[k] = "first" /\ calls[l] = "second"

(***************************************************************************)
(* Properties of translate_blocks (SpecTranslate).                         *)
(***************************************************************************)
TranslateCalls == IF pc = "translated" THEN 1..Len(calls) ELSE {}

DigitValue(c) == CHOOSE n \in 0..9 : <<"0", "1", "2", "3", "4", "5", "6", "7", "8", "9">>[n + 1] = c

(* The number a response line carries ("n. text"), 0 when it carries none. *)
NumberOf(line) ==
    LET l == strip(line)
    IN  IF Len(l) >= 2 /\ l[1] \in Digit /\ l[2] = "." THEN DigitValue(l[1]) ELSE 0

(* The translation on a numbered response line. *)
ContentOf(line) == strip(SubSeq(strip(line), 3, Len(strip(line))))

(* The lines of the response that carry the number n. *)
LinesNumbered(lines, n) == {l \in 1..Len(lines) : NumberOf(lines[l]) = n}

(* Length and fields: what holds for every response text. *)
TranslationsKeepShape ==
    \A c \in TranslateCalls :
        (Len(calls[c].blocks) > 0 /\ ~calls[c].result.raised) =>
            /\ Len(calls[c].result.blocks) = Len(calls[c].blocks)
            /\ \A i \in 1..Len(calls[c].blocks) :
                  /\ calls[c].result.blocks[i].bounding_box = calls[c].blocks[i].bounding_box
                  /\ calls[c].result.blocks[i].page = calls[c].blocks[i].page
                  /\ calls[c].result.blocks[i].confidence = calls[c].blocks[i].confidence
                  /\ calls[c].result.blocks[i].element_id = calls[c].blocks[i].element_id
            /\ calls[c].blocks = input.blocks

(* C21: for every non-empty source list and every response text,           *)
(* translate_blocks returns a list of the source list's length, aligned    *)
(* with it: element i keeps bounding_box, page, confidence and element_id  *)
(* of source block i, and its text is the translation the response gives   *)
(* for numbered string i (1-based), not that of another numbered string;   *)
(* the source blocks are not mutated.                                      *)
C21_TranslationsAligned ==
    /\ TranslationsKeepShape
    /\ \A c \in TranslateCalls :
          (Len(calls[c].blocks) > 0 /\ ~calls[c].result.raised) =>
              \A i \in 1..Len(calls[c].blocks) :
                  \A l \in LinesNumbered(input.lines, i) :
                      Cardinality(LinesNumbered(input.lines, i)) = 1 =>
                          calls[c].result.blocks[i].text = ContentOf(input.lines[l])

(* A response whose lines come numbered 1, 2 in that order was parsed for  *)
(* two blocks: each block got the text of its number.                      *)
TranslationsWitness ==
    /\ pc = "translated"
    /\ Len(input.blocks) = 2
    /\ input.lines = <<LineSi, LineNo>>
    /\ ~calls[1].result.raised
    /\ calls[1].result.blocks[1].text = <<"S", "i">>
    /\ calls[1].result.blocks[2].text = <<"N", "o">>

(***************************************************************************)
(* Properties of _wrap_text (SpecWrap).                                    *)
(***************************************************************************)
WrapCalls == IF pc = "wrapped" THEN 1..Len(calls) ELSE {}

(* The lines are what the greedy rule makes of the words: whole words      *)
(* joined by single spaces, in order; a word stays on the line while the   *)
(* line with it measures <= max_width, and the first word of the next line *)
(* is one that did not fit any more.                                       *)
GreedyLines(c) ==
    /\ WordsOfLines(c.lines) = split(c.text)
    /\ \A n \in 1..Len(c.lines) :
          LET words == split(c.lines[n])
          IN  /\ c.lines[n] = JoinWords(words)
              /\ \A m \in 2..Len(words) :
                    textwidth(JoinWords(SubSeq(words, 1, m)), c.font) <= c.max_width
    /\ \A n \in 1..(Len(c.lines) - 1) :
          textwidth(c.lines[n] \o <<" ">> \o Head(split(c.lines[n + 1])), c.font)
              > c.max_width

(* No line is empty, and a line wider than max_width is one whole word. *)
WideLinesAreWords(c) ==
    \A n \in 1..Len(c.lines) :
        /\ Len(c.lines[n]) > 0
        /\ textwidth(c.lines[n], c.font) > c.max_width =>
              /\ Len(split(c.lines[n])) = 1
              /\ c.lines[n] \in {split(c.text)[m] : m \in 1..Len(split(c.text))}

GlyphCell(line, j, x, y, font) ==
    ((x + textwidth(SubSeq(line, 1, j - 1), font))
        ..(x + textwidth(SubSeq(line, 1, j), font) - 1))
      \X (y..(y + textheight(font) - 1))

(* The pixels of the text when line k (0-based) starts at (x0, y0 + k*H),  *)
(* H the height of the probe plus 1: every line, whole, left-aligned; the  *)
(* glyphs that are not whitespace ink their cells.                         *)
PlacedText(w) ==
    LET H == textheight(w.fit.font) + 1
    IN  UNION {UNION {GlyphCell(w.fit.lines[k + 1], j, w.rect[1], w.rect[2] + k * H,
                                w.fit.font) :
                      j \in {i \in 1..Len(w.fit.lines[k + 1]) :
                                w.fit.lines[k + 1][i] \notin Whitespace}} :
               k \in 0..(Len(w.fit.lines) - 1)}

(* C24: for a non-skipped region with rectangle (x0, y0, x1, y1) and       *)
(* fitted lines L[0..n-1], line k is drawn left-aligned at                 *)
(* (x0, y0 + k*H), H being the rendered height of "Ag" at the chosen font  *)
(* plus 1; every line is drawn, in list order, none is omitted or clipped  *)
(* to the rectangle's bottom edge, none is centred: after the step the     *)
(* canvas is the filled canvas with exactly those glyph pixels (as far as  *)
(* they lie on the canvas) in black.                                       *)
C24_LinesPlaced ==
    [][(StepOfRegion /\ Len(writes') = Len(writes) + 1) =>
          LET w == writes'[Len(writes')]
          IN  img' = Paint(Paint(img, RectPixels(img, w.rect), w.bg_color),
                           PlacedText(w) \cap DOMAIN img.data, Black)
      ]_vars

(* A region got two lines; the second lies wholly below the rectangle's    *)
(* bottom edge and is on the canvas.                                       *)
C24_Witness ==
    /\ pc = "loop"
    /\ Len(writes) >= 1
    /\ LET w == writes[Len(writes)]
           H == textheight(w.fit.font) + 1
       IN  /\ w.index = idx - 1
           /\ Len(w.fit.lines) = 2
           /\ w.rect[2] + H > w.rect[4]
           /\ \E p \in DOMAIN img.data :
                 /\ p[2] >= w.rect[2] + H
                 /\ p \in PlacedText(w)
                 /\ img.data[p] = Black

(* C25: within each non-skipped region step the order is sample, fill,     *)
(* draw: the fill colour of region i is the estimator applied to the       *)
(* canvas as the steps of regions 0..i-1 left it (not to the pristine      *)
(* input image) and before region i's own fill; the fill is painted with   *)
(* it, and the text is drawn over the fill.                                *)
C25_SampleFillDraw ==
    [][(StepOfRegion /\ Len(writes') = Len(writes) + 1) =>
          LET w == writes'[Len(writes')]
          IN  /\ img = RunRegions(Decoded(original), SubSeq(Zipped, 1, idx - 1))
              /\ w.bg_color = _sample_background(img, w.rect)
              /\ \A p \in RectPixels(img, w.rect) :
                    img'.data[p] = IF p \in InkOf(w) THEN Black ELSE w.bg_color
      ]_vars

(* A region was filled with a colour that its corner shows only since an   *)
(* earlier region was painted there, and its text lies on its fill.        *)
C25_Witness ==
    /\ pc = "loop"
    /\ Len(writes) >= 2
    /\ LET w == writes[Len(writes)]
       IN  /\ w.index = idx - 1
           /\ w.bg_color # _sample_background(Decoded(original), w.rect)
           /\ w.bg_color # White
           /\ \E p \in RectPixels(img, w.rect) : img.data[p] = w.bg_color
           /\ \E p \in RectPixels(img, w.rect) : p \in InkOf(w) /\ img.data[p] = Black

(* The pairs (sourceRegions[k], translatedRegions[k]) of the common prefix *)
(* of the two lists.                                                       *)
CommonPrefix ==
    [k \in 1..Min(Len(source_blocks), Len(translated_blocks)) |->
        <<source_blocks[k], translated_blocks[k]>>]

(* C26: when sourceRegions and translatedRegions differ in length the call *)
(* does not raise: it processes exactly the pairs of the common prefix, in *)
(* order, leaves the canvas untouched for every region beyond the prefix,  *)
(* and still writes the output file.                                       *)
C26_MismatchTruncates ==
    Len(source_blocks) # Len(translated_blocks) =>
        /\ pc # "raised"
        /\ \A k \in 1..Len(writes) : writes[k].index <= Len(CommonPrefix)
        /\ pc = "done" =>
              /\ output = ConvertRGB(RunRegions(Decoded(original), CommonPrefix))
              /\ files[output_path] = Saved(output)
              /\ returned = output_path

(* The call ended with a source region left over: the pair before it was   *)
(* painted, the file was written, and the pixels of the region left over   *)
(* that no painted region covers are those of the input.                   *)
C26_Witness ==
    /\ pc = "done"
    /\ Len(source_blocks) = Len(translated_blocks) + 1
    /\ Len(writes) = Len(translated_blocks)
    /\ Len(writes) >= 1
    /\ files[output_path] = Saved(output)
    /\ output # ConvertRGB(Decoded(original))
    /\ LET last == source_blocks[Len(source_blocks)]
       IN  /\ WellFormed(last)
           /\ ~_is_non_translatable(last.text)
           /\ \E p \in RectPixels(img, _polygon_to_rect(last.bounding_box)) :
                 /\ \A k \in 1..Len(writes) : p \notin RectPixels(img, writes[k].rect)
                 /\ output.data[p] = RGB(Decoded(original).data[p])

(***************************************************************************)
(* process_asset (src/main.py): eligibility, extraction, translation,      *)
(* reinsertion, packaging, and the metrics record.  The asset's files are  *)
(* the asset itself, its copy under no-loc, the localized image and the    *)
(* review package.                                                         *)
(***************************************************************************)
MIN_WORD_COUNT == 3
SUPPORTED_EXTENSIONS == {".png", ".jpg", ".jpeg", ".bmp", ".tiff", ".pdf"}

AssetFile == "file_path"
NoLocFile == "no-loc/name"
LocalizedFile == "localized/name"
ZipFile == "packages/asset_id.zip"
AssetPaths == {AssetFile, NoLocFile, LocalizedFile, ZipFile}
NO_LOC_DIR == "no-loc"
MetricsDir == "output"
LocalizedDir == "localized"
PackagesDir == "packages"
AssetId == "asset_id"
NoResult == [status |-> "none"]

(* path.suffix.lower() on the suffixes of the inputs. *)
Suffixes == {".png", ".PNG", ".pdf", ".svg", ""}
lower(ext) == IF ext = ".PNG" THEN ".png" ELSE ext

check_eligibility(exists, suffix) ==
    IF ~exists
    THEN [eligible |-> FALSE, reason |-> "File not found", asset_type |-> "unknown"]
    ELSE LET ext == lower(suffix)
         IN  IF ext \in SUPPORTED_EXTENSIONS
             THEN [eligible |-> TRUE, reason |-> "Supported type",
                   asset_type |-> IF ext = ".pdf" THEN "pdf" ELSE "raster"]
             ELSE [eligible |-> FALSE, reason |-> "Unsupported file type",
                   asset_type |-> "unknown"]

RECURSIVE total_words(_)
total_words(blocks) ==
    IF Len(blocks) = 0 THEN 0
    ELSE Len(split(Head(blocks).text)) + total_words(Tail(blocks))

has_localizable_text(blocks) == total_words(blocks) >= MIN_WORD_COUNT

(* _save_noloc: the directory is made, and the asset is copied unless the  *)
(* destination exists; shutil.copy2 raises when the asset does not exist.  *)
_save_noloc(fs, ds) ==
    LET made == ds \cup {NO_LOC_DIR}
    IN  IF fs[NoLocFile] # NoFile
        THEN [raised |-> FALSE, files |-> fs, dirs |-> made]
        ELSE IF fs[AssetFile] = NoFile
        THEN [raised |-> TRUE, files |-> fs, dirs |-> made]
        ELSE [raised |-> FALSE, files |-> [fs EXCEPT ![NoLocFile] = fs[AssetFile]],
              dirs |-> made]

(* The record log_result appends (the timestamp left out). *)
log_result(asset_id, total_strings, review_outcome, escalation_reason) ==
    [asset_id |-> asset_id, total_strings |-> total_strings,
     review_outcome |-> review_outcome, escalation_reason |-> escalation_reason]

(* The archive create_review_package writes: the text mapping of the       *)
(* zipped blocks and the two files.                                        *)
create_review_package(fs, blocks, translated) ==
    [kind |-> "zip", id |-> Len(blocks),
     image |-> fs[LocalizedFile].image,
     text_mapping |-> [k \in 1..Min(Len(blocks), Len(translated)) |->
                          [source |-> blocks[k].text,
                           translated |-> translated[k].text,
                           page |-> blocks[k].page]]]

(* Inputs: what the path holds, its suffix, whether no-loc already has a   *)
(* file of that name, what the OCR finds, and the translation backend.     *)
TxtTwoWords == <<"a", " ", "a">>
AssetPool ==
    {[text |-> TxtOk, bounding_box |-> BoxA, page |-> 1, confidence |-> 90,
      element_id |-> NoId],
     [text |-> TxtTwoWords, bounding_box |-> BoxC, page |-> 1, confidence |-> 45,
      element_id |-> NoId]}
AssetResponses == {JoinLines(<<LineSi, LineNo>>), LineSi}

InitAsset ==
    /\ fontAvailable = TRUE
    /\ original = Encoded(1)
    /\ img = NoImage
    /\ source_blocks = <<>>
    /\ translated_blocks = <<>>
    /\ idx = 1
    /\ pc = "eligibility"
    /\ output = NoImage
    /\ writes = <<>>
    /\ input \in [content : {NoFile, Corrupt, Encoded(1)},
                  suffix : Suffixes,
                  noloc_exists : BOOLEAN,
                  blocks : SeqsUpTo(AssetPool, MaxRegions),
                  backend : {"foundry", "none"},
                  response_text : AssetResponses]
    /\ calls = <<>>
    /\ original_path = AssetFile
    /\ output_path = LocalizedFile
    /\ files = [p \in AssetPaths |->
                   IF p = AssetFile THEN input.content
                   ELSE IF p = NoLocFile /\ input.noloc_exists THEN Encoded(1)
                   ELSE NoFile]
    /\ dirs = {}
    /\ before = [files |-> files, dirs |-> dirs]
    /\ returned = NoResult
    /\ running = <<>>
    /\ metrics = <<>>

(* Lines 45-50: an asset that is not eligible is copied to no-loc, logged  *)
(* and returned as "noloc"; the copy of a missing file raises.             *)
CheckEligibility ==
    /\ pc = "eligibility"
    /\ LET eligibility == check_eligibility(files[AssetFile] # NoFile, input.suffix)
           saved == _save_noloc(files, dirs)
       IN  IF eligibility.eligible
           THEN /\ calls' = Append(calls, "check_eligibility")
                /\ pc' = "extract"
                /\ UNCHANGED <<files, dirs, metrics, returned>>
           ELSE IF saved.raised
           THEN /\ calls' = calls \o <<"check_eligibility", "_save_noloc">>
                /\ dirs' = saved.dirs
                /\ pc' = "raised"
                /\ UNCHANGED <<files, metrics, returned>>
           ELSE /\ calls' = calls \o <<"check_eligibility", "_save_noloc", "log_result">>
                /\ files' = saved.files
                /\ dirs' = saved.dirs \cup {MetricsDir}
                /\ metrics' = Append(metrics,
                                     log_result(AssetId, 0, "noloc", eligibility.reason))
                /\ returned' = [asset_id |-> AssetId, status |-> "noloc"]
                /\ pc' = "returned"
    /\ UNCHANGED <<fontAvailable, original, img, source_blocks, translated_blocks, idx,
                   output, writes, input>>
    /\ UNCHANGED args

(* Lines 54-61: the blocks are extracted; with too few words the asset is  *)
(* copied to no-loc, logged and returned as "noloc".                       *)
ExtractText ==
    /\ pc = "extract"
    /\ source_blocks' = input.blocks
    /\ LET blocks == input.blocks
           saved == _save_noloc(files, dirs)
       IN  IF has_localizable_text(blocks)
           THEN /\ calls' = Append(calls, "extract_text")
                /\ pc' = "translate"
                /\ UNCHANGED <<files, dirs, metrics, returned>>
           ELSE IF saved.raised
           THEN /\ calls' = calls \o <<"extract_text", "_save_noloc">>
                /\ dirs' = saved.dirs
                /\ pc' = "raised"
                /\ UNCHANGED <<files, metrics, returned>>
           ELSE /\ calls' = calls \o <<"extract_text", "_save_noloc", "log_result">>
                /\ files' = saved.files
                /\ dirs' = saved.dirs \cup {MetricsDir}
                /\ metrics' = Append(metrics,
                                     log_result(AssetId, Len(blocks), "noloc",
                                                "insufficient text"))
                /\ returned' = [asset_id |-> AssetId, status |-> "noloc",
                                word_count |-> Len(blocks)]
                /\ pc' = "returned"
    /\ UNCHANGED <<fontAvailable, original, img, translated_blocks, idx,
                   output, writes, input>>
    /\ UNCHANGED args

(* Line 65: translate_blocks returns the translated blocks, or raises. *)
TranslateBlocks ==
    /\ pc = "translate"
    /\ LET translated == translate_blocks(source_blocks, input.backend,
                                          input.response_text)
       IN  IF translated.raised
           THEN pc' = "raised" /\ UNCHANGED translated_blocks
           ELSE pc' = "reinsert" /\ translated_blocks' = translated.blocks
    /\ calls' = Append(calls, "translate_blocks")
    /\ UNCHANGED <<fontAvailable, original, img, source_blocks, idx,
                   output, writes, input>>
    /\ UNCHANGED <<args, world>>

(* Lines 69-77: the localized directory is made and the asset reinserted;  *)
(* reinsert_raster raises on a file that is no image.                      *)
ReinsertAsset ==
    /\ pc = "reinsert"
    /\ LET asset_type == check_eligibility(files[AssetFile] # NoFile,
                                           input.suffix).asset_type
           pairs == [k \in 1..Min(Len(source_blocks), Len(translated_blocks)) |->
                        <<source_blocks[k], translated_blocks[k]>>]
       IN  IF asset_type = "svg"
           THEN /\ calls' = Append(calls, "reinsert_svg")
                /\ files' = [files EXCEPT ![LocalizedFile] = files[AssetFile]]
                /\ pc' = "package"
           ELSE IF Decodable(files[AssetFile])
           THEN /\ calls' = Append(calls, "reinsert_raster")
                /\ files' = [files EXCEPT ![LocalizedFile] =
                                Saved(ConvertRGB(RunRegions(Decoded(files[AssetFile]),
                                                            pairs)))]
                /\ pc' = "package"
           ELSE /\ calls' = Append(calls, "reinsert_raster")
                /\ pc' = "raised"
                /\ UNCHANGED files
    /\ dirs' = dirs \cup {LocalizedDir}
    /\ UNCHANGED <<fontAvailable, original, img, source_blocks, translated_blocks, idx,
                   output, writes, input>>
    /\ UNCHANGED <<args, returned, metrics>>

(* Lines 81-100: the review package is written, the result logged as       *)
(* pending review and returned as "packaged".                              *)
Package ==
    /\ pc = "package"
    /\ files' = [files EXCEPT ![ZipFile] =
                    create_review_package(files, source_blocks, translated_blocks)]
    /\ dirs' = dirs \cup {PackagesDir, MetricsDir}
    /\ calls' = calls \o <<"create_review_package", "log_result">>
    /\ metrics' = Append(metrics,
                         log_result(AssetId, Len(source_blocks), "pending_review", ""))
    /\ returned' = [asset_id |-> AssetId, status |-> "packaged",
                    word_count |-> Len(source_blocks), zip_path |-> ZipFile]
    /\ pc' = "returned"
    /\ UNCHANGED <<fontAvailable, original, img, source_blocks, translated_blocks, idx,
                   output, writes, input>>
    /\ UNCHANGED args

NextAsset == CheckEligibility \/ ExtractText \/ TranslateBlocks \/ ReinsertAsset \/ Package

SpecAsset == InitAsset /\ [][NextAsset]_vars

(* The stages of the pipeline among the calls made so far, and what the    *)
(* claim asks of an asset before the later stages run.                     *)
Stages == <<"extract_text", "translate_blocks", "reinsert_raster", "create_review_package">>
IsStage(name) == name \in {"extract_text", "translate_blocks", "reinsert_raster",
                           "reinsert_svg", "create_review_package"}
StageCalls == SelectSeq(calls, IsStage)
PassedEligibility ==
    /\ input.content # NoFile
    /\ lower(input.suffix) \in SUPPORTED_EXTENSIONS
EnoughWords == total_words(input.blocks) >= MIN_WORD_COUNT

(* Translation, reinsertion and packaging run only for an asset that is    *)
(* eligible and has at least MIN_WORD_COUNT words, in the order extract,   *)
(* translate, reinsert, package, each at most once; a call that returns    *)
(* has status "noloc" or "packaged", has appended exactly one metrics      *)
(* record, and a packaged asset went through all four stages.              *)
StagesGuarded ==
    /\ IsPrefix(StageCalls, Stages)
    /\ Len(StageCalls) >= 1 => PassedEligibility
    /\ Len(StageCalls) >= 2 => EnoughWords
    /\ pc # "returned" => metrics = <<>> /\ returned = NoResult
    /\ pc = "returned" =>
          /\ returned.status \in {"noloc", "packaged"}
          /\ Len(metrics) = 1
          /\ returned.status = "packaged" <=> StageCalls = Stages
          /\ returned.status = "packaged" => PassedEligibility /\ EnoughWords

(* C27: in process_asset, translation, reinsertion and packaging are       *)
(* invoked only for an asset that passed check_eligibility and whose       *)
(* blocks total at least MIN_WORD_COUNT words, then exactly once each in   *)
(* the order extract, translate, reinsert, package; and every call, for    *)
(* any input path, a path that does not exist included, returns a result   *)
(* with status "noloc" or "packaged" after appending exactly one metrics   *)
(* record: no call ends by raising.                                        *)
C27_EveryCallReturns ==
    /\ StagesGuarded
    /\ pc # "raised"

(* An eligible asset with enough words was packaged. *)
PackagedWitness ==
    /\ pc = "returned"
    /\ returned.status = "packaged"
    /\ files[ZipFile] # NoFile
    /\ Len(metrics) = 1

(* The call for a path that does not exist ended by raising in            *)
(* _save_noloc, with no metrics record.                                    *)
MissingPathRaises ==
    /\ pc = "raised"
    /\ input.content = NoFile
    /\ calls = <<"check_eligibility", "_save_noloc">>
    /\ metrics = <<>>
    /\ returned = NoResult

====
